---- MODULE Spec2Model ----
(***************************************************************************)
(* Block-cadence monitors and transaction load generators of the Sei       *)
(* stress-test scripts:                                                     *)
(*   "orig"   src/stress_test_blocktime.py        (class SeiStressTest)    *)
(*   "fixed"  src/stress_test_blocktime_fixed.py  (class SeiStressTest)    *)
(*   "tps20k" src/stress_test_20k_tps.py (SeiHighPerformanceStressTest)    *)
(*   "simple" src/simple_blocktime_test.py        (class BlockTimeMonitor) *)
(*                                                                         *)
(* Time is counted in ticks of 0.01 s.  Every action is the synchronous    *)
(* code a coroutine runs between two awaits; the clock, the chain and the  *)
(* RPC responses are the environment.                                      *)
(***************************************************************************)
EXTENDS Integers, Sequences, FiniteSets, TLC

VARIABLES
    variant,                 \* which script is running
    transactions_per_batch,  \* the batch size the load loop was written with
    now,                     \* time.time() / time.perf_counter(), in ticks
    generate_load,           \* simple: monitor_block_production was asked for read load
    read_load,               \* simple: where the task of generate_read_load stands
    load_requests,           \* simple: the requests that task has issued
    chain,                   \* chain[h] = timestamp (s) of block h; height = Len(chain)
    \* ---- monitor_blocks / monitor_block_production
    mon_pc,
    mon_duration,            \* duration_seconds of the monitor, in ticks
    mon_start_time,          \* start_time
    start_real_time,
    start_block,             \* the height read at monitor start
    last_block,              \* last_block / last_block_number
    last_block_time,
    last_timestamp,
    current_block,
    blocks_produced,
    block_times,             \* self.block_times
    block_time_measurements,
    mon_wake,                \* when the pending asyncio.sleep may return
    mon_report,              \* what the monitor's closing statistics printed
    last_poll,               \* how the latest poll of the monitor ended
    \* ---- stress_test_transactions(_optimized) and its send_transaction_batch tasks
    load_pc,
    num_accounts,            \* len(self.accounts)
    tx_count,                \* web3.eth.get_transaction_count of each account
    load_duration,           \* duration_seconds of the load phase, in ticks
    load_start_time,         \* start_time
    last_batch_time,
    load_wake,               \* when the pending asyncio.sleep may return
    nonce_counters,
    tasks,                   \* the send_transaction_batch coroutines of the current batch
    sent,                    \* self.tx_results['sent']
    failed,                  \* self.tx_results['failed']
    load_error,              \* the exception that ended the load phase, if any
    \* ---- history of the load phase
    batch_no,                \* batches dispatched so far
    batch_started_at,        \* when the latest batch was dispatched
    submitted,               \* submissions posted so far
    handed,                  \* handed[a]: the nonces given to a's send tasks so far
    handed_twice,            \* some nonce was given to two send tasks
    reserved_total,          \* reserved_total[a]: the sum of the counts given to a's tasks
    all_accepted,            \* every submission resolved so far was accepted
    accepted_total,          \* submissions the endpoint accepted so far
    transport_error_seen,    \* some submission ended in a transport exception
    post_log,                \* post_log[a]: the nonces of a's session.post calls, in order
    \* ---- run_full_test
    run_pc,
    stress_duration,         \* in ticks
    monitor_duration,        \* in ticks
    verdict,                 \* the tier the VERDICT lines printed last
    verdicts,                \* how many verdicts were printed
    baseline_report,         \* the "Baseline Results" that phase 1 printed
    stats_report,            \* the statistics that a phase printed at its end
    loaded_started           \* the stress and monitor tasks of phase 2 were created

readLoadVars == <<generate_load, read_load, load_requests>>
envVars == <<variant, transactions_per_batch, now, chain, readLoadVars>>
monVars == <<mon_pc, mon_duration, mon_start_time, start_real_time, start_block,
             last_block, last_block_time, last_timestamp, current_block,
             blocks_produced, block_times, block_time_measurements, mon_wake,
             mon_report, last_poll>>
loadVars == <<load_pc, num_accounts, tx_count, load_duration, load_start_time,
              last_batch_time, load_wake, nonce_counters, tasks, sent, failed,
              load_error>>
histVars == <<batch_no, batch_started_at, submitted, handed, handed_twice,
              reserved_total, all_accepted, accepted_total, transport_error_seen,
              post_log>>
runVars == <<run_pc, stress_duration, monitor_duration, verdict, verdicts,
             baseline_report, stats_report, loaded_started>>
vars == <<envVars, monVars, loadVars, histVars, runVars>>

----------------------------------------------------------------------------
(* Bounds of the model *)
MaxTime == 10
MaxHeight == 4
MonDuration == 6
MaxLatency == 3

(* One tick is 0.01 s, so a difference of perf_counter() readings times 1000 *)
(* is ticks * 10 milliseconds.                                               *)
MsPerTick == 10

None == -1
Variants == {"orig", "fixed", "tps20k", "simple"}
Measured == {"fixed", "tps20k"}

(* asyncio.sleep(0.02) in fixed, tps20k and simple; asyncio.sleep(0.05) in orig *)
PollSleep(v) == IF v = "orig" THEN 5 ELSE 2

(* n / d of two numbers, kept exact as a fraction.  Python raises           *)
(* ZeroDivisionError when d = 0: Raises tells it.                           *)
Quot(n, d) == [num |-> n, den |-> d]
Raises(q) == q.den = 0
RatEq(a, b) == a.num * b.den = b.num * a.den
RatLeq(a, b) == a.num * b.den <= b.num * a.den
RatAdd(a, b) == [num |-> a.num * b.den + b.num * a.den, den |-> a.den * b.den]

(* the sum of s[lo..hi], added up by halves *)
RECURSIVE SumRange(_, _, _)
SumRange(s, lo, hi) ==
    IF lo > hi THEN [num |-> 0, den |-> 1]
    ELSE IF lo = hi THEN [num |-> s[lo].num, den |-> s[lo].den]
    ELSE LET mid == (lo + hi) \div 2
         IN  RatAdd(SumRange(s, lo, mid), SumRange(s, mid + 1, hi))
SumSamples(s) == SumRange(s, 1, Len(s))

(* statistics.mean(data): the sum over the count; raises on empty data *)
Mean(s) == LET t == SumSamples(s) IN Quot(t.num, t.den * Len(s))

(* A sample of block_times: its value and the expression that produced it *)
Sample(n, d, s) == [num |-> n, den |-> d, src |-> s]

Repeat(x, n) == [i \in 1..n |-> x]

Height == Len(chain)
(* the height an eth_blockNumber / "latest" answer may carry: the head, or the *)
(* head one block earlier when the answering node lags                        *)
Answers == {h \in {Height - 1, Height} : h >= 1}

----------------------------------------------------------------------------
(* Environment: the clock and the chain, for as long as a task is running *)
MonitorRunning == mon_pc \in {"initial_read", "loop", "sleep", "fetch_block", "finish"}
TaskRunning(t) == t.st \in {"new", "posted", "counting"}
LoadRunning ==
    \/ load_pc \in {"rate_sleep", "gather", "batch_sleep"}
    \/ \E a \in DOMAIN tasks : TaskRunning(tasks[a])
Running == MonitorRunning \/ LoadRunning

(* a batch in flight is resolved within MaxLatency ticks of its dispatch *)
BatchOverdue == load_pc = "gather" /\ now - batch_started_at >= MaxLatency

(* the sleeps of the load loop return on time *)
LoadSleepOver == load_pc \in {"rate_sleep", "batch_sleep"} /\ now >= load_wake

(* under run_full_test the event loop is not late: no time passes while a  *)
(* coroutine has a step to run                                              *)
EventLoopBusy ==
    /\ run_pc # "standalone"
    /\ \/ mon_pc = "sleep" /\ now >= mon_wake
       \/ mon_pc \in {"start", "initial_read", "loop", "finish"}
       \/ load_pc = "start"
       \/ \E a \in DOMAIN tasks :
             \/ tasks[a].st \in {"new", "counting"}
             \/ /\ tasks[a].st = "posted"
                /\ \A i \in 1..tasks[a].count : tasks[a].resp[i] # "inflight"
       \/ load_pc = "gather" /\ \A a \in DOMAIN tasks : ~TaskRunning(tasks[a])

Tick ==
    /\ Running
    /\ now < MaxTime
    /\ ~BatchOverdue
    /\ ~LoadSleepOver
    /\ ~EventLoopBusy
    /\ now' = now + 1
    /\ UNCHANGED <<variant, transactions_per_batch, chain, readLoadVars, monVars, loadVars, histVars, runVars>>

(* The chain produces a block; its timestamp has whole-second resolution *)
NewBlock ==
    /\ Running
    /\ Height < MaxHeight
    /\ \E dts \in {0, 1} : chain' = Append(chain, chain[Height] + dts)
    /\ UNCHANGED <<variant, transactions_per_batch, now, readLoadVars, monVars, loadVars, histVars, runVars>>

----------------------------------------------------------------------------
(* monitor_blocks (orig, fixed, tps20k), monitor_block_production (simple) *)

(* from the call to the first await *)
MonStart ==
    /\ mon_pc = "start"
    /\ mon_start_time' = IF variant = "simple" THEN mon_start_time ELSE now
    /\ start_real_time' = IF variant \in Measured THEN now ELSE start_real_time
    /\ mon_pc' = "initial_read"
    /\ UNCHANGED <<loadVars, histVars, runVars>>
    /\ UNCHANGED <<envVars, mon_duration, start_block, last_block, last_block_time,
                   last_timestamp, current_block, blocks_produced, block_times,
                   block_time_measurements, mon_wake, mon_report, last_poll>>

(* a monitor that goes on to its polling loop when the initial read failed *)
AfterInitialReadErrorGoesOn(v) == "loop"

(* the initial read is outside any try (orig, fixed, tps20k): its exception  *)
(* ends monitor_blocks; simple prints ERROR and returns                      *)
AfterInitialReadError(v) == IF v = "simple" THEN "returned" ELSE "raised"

(* simple: "if generate_load: load_task = asyncio.create_task(...)" stands   *)
(* after the return of a failed initial read                                 *)
LoadTaskAfterInitialRead(v, ok, wanted, task) ==
    IF v = "simple" /\ ok /\ wanted THEN "created" ELSE task

(* the initial height read answers *)
MonInitialRead ==
    /\ mon_pc = "initial_read"
    /\ \E ok \in BOOLEAN : \E h \in Answers :
        IF ~ok
        THEN /\ mon_pc' = AfterInitialReadError(variant)
             /\ mon_report' = IF variant = "simple" THEN "error" ELSE mon_report
             /\ read_load' = LoadTaskAfterInitialRead(variant, FALSE, generate_load, read_load)
             /\ UNCHANGED <<mon_start_time, start_block, last_block, last_block_time,
                            last_timestamp, blocks_produced, block_time_measurements>>
        ELSE /\ mon_pc' = "loop"
             /\ last_block' = h
             /\ start_block' = h
             /\ last_block_time' = IF variant \in Measured THEN now ELSE last_block_time
             /\ last_timestamp' = IF variant = "simple" THEN chain[h] ELSE None
             /\ mon_start_time' = IF variant = "simple" THEN now ELSE mon_start_time
             /\ blocks_produced' = 0
             /\ block_time_measurements' = << >>
             /\ read_load' = LoadTaskAfterInitialRead(variant, TRUE, generate_load, read_load)
             /\ UNCHANGED mon_report
    /\ UNCHANGED <<loadVars, histVars, runVars>>
    /\ UNCHANGED <<variant, transactions_per_batch, now, chain, generate_load,
                   load_requests, mon_duration, start_real_time, current_block,
                   block_times, mon_wake, last_poll>>

(* simple, the finally clause around the loop: "if load_task:                *)
(* load_task.cancel()", then "await load_task" under an except for           *)
(* CancelledError; the statistics follow when the task has ended             *)
CancelRequested(task) == IF task = "none" THEN task ELSE "cancelling"
AfterLoop(task) == IF task = "none" THEN "finish" ELSE "await_cancel"

(* a monitor whose cancel is not in a finally clause: an exception out of    *)
(* the loop passes it by                                                     *)
AfterLoopRaisesNoFinally(task) == "raised"

(* an exception out of the loop runs the finally clause and is raised again  *)
(* after it                                                                  *)
AfterLoopRaises(task) == IF task = "none" THEN "raised" ELSE "await_cancel_raise"

(* while time.time() - start_time < duration_seconds: await asyncio.sleep(...) *)
MonLoop ==
    /\ mon_pc = "loop"
    /\ IF now - mon_start_time < mon_duration
       THEN /\ mon_pc' = "sleep"
            /\ mon_wake' = now + PollSleep(variant)
       ELSE /\ mon_pc' = AfterLoop(read_load)
            /\ UNCHANGED mon_wake
    /\ read_load' = IF now - mon_start_time < mon_duration
                    THEN read_load ELSE CancelRequested(read_load)
    /\ UNCHANGED <<loadVars, histVars, runVars>>
    /\ UNCHANGED <<variant, transactions_per_batch, now, chain, generate_load,
                   load_requests, mon_duration, mon_start_time, start_real_time, start_block,
                   last_block, last_block_time, last_timestamp, current_block,
                   blocks_produced, block_times, block_time_measurements, mon_report, last_poll>>

(* a detection that books the whole elapsed time as one interval *)
MeasuredSamplesOneInterval(cur_block, lst_block, cur_time, lst_time) ==
    <<Sample((cur_time - lst_time) * MsPerTick, 1, "perf_counter")>>

(* a detection that books the whole elapsed time for each of its blocks *)
MeasuredSamplesEachWhole(cur_block, lst_block, cur_time, lst_time) ==
    Repeat(Sample((cur_time - lst_time) * MsPerTick, 1, "perf_counter"),
           cur_block - lst_block)

(* a monitor that takes over whatever height the poll returned *)
NewHeightAny(h, lst) == h # lst

(* if current_block > last_block: *)
NewHeight(h, lst) == h > lst

(* fixed, tps20k: the samples a detection appends *)
MeasuredSamples(cur_block, lst_block, cur_time, lst_time) ==
    LET blocks_diff == cur_block - lst_block
        time_diff_ms == (cur_time - lst_time) * MsPerTick
        avg_block_time_ms == Quot(time_diff_ms, blocks_diff)
    IN  Repeat(Sample(avg_block_time_ms.num, avg_block_time_ms.den, "perf_counter"),
               blocks_diff)

(* a sample of 0 ms kept for two blocks of the same second *)
TimestampSampleZeroKept(cur_ts, lst_ts) == Sample((cur_ts - lst_ts) * 1000, 1, "timestamp")

(* orig, simple: the sample a detection appends, from the block timestamps *)
TimestampSample(cur_ts, lst_ts) ==
    LET block_time_s == cur_ts - lst_ts
    IN  IF block_time_s * 1000 = 0
        THEN Sample(85, 1, "constant")
        ELSE Sample(block_time_s * 1000, 1, "timestamp")

(* how an answered poll compares with the last observed height *)
Answered(h, lst) == IF h > lst THEN "answered" ELSE IF h = lst THEN "same" ELSE "lower"

(* a monitor that books the error of a poll in self.tx_results['failed'] *)
FailedAfterPollErrorCounted(n) == n + 1

(* the except clause of the monitor prints the error and touches no counter *)
FailedAfterPollError(n) == n

(* a monitor that polls again after an error without testing its deadline *)
AfterPollErrorRetries(v) == "sleep"

(* a polling loop that an error of a poll ends *)
AfterPollErrorRaises(v) == "raised"

(* the except clause around the poll (orig, fixed, tps20k), the None that    *)
(* make_rpc_call returns (simple): the error is dropped and the loop goes on *)
AfterPollError(v) == "loop"

(* the sleep is over, the poll is sent and answered: fixed and tps20k *)
MonPollMeasured ==
    /\ mon_pc = "sleep"
    /\ variant \in Measured
    /\ now >= mon_wake
    /\ \E ok \in BOOLEAN : \E h \in Answers :
        IF ~ok
        THEN /\ mon_pc' = AfterPollError(variant)
             /\ last_poll' = "error"
             /\ failed' = FailedAfterPollError(failed)
             /\ UNCHANGED <<block_times, block_time_measurements, blocks_produced,
                            last_block, last_block_time>>
        ELSE /\ mon_pc' = "loop"
             /\ last_poll' = Answered(h, last_block)
             /\ UNCHANGED failed
             /\ IF NewHeight(h, last_block)
                THEN LET new == MeasuredSamples(h, last_block, now, last_block_time)
                     IN  /\ block_times' = block_times \o new
                         /\ block_time_measurements' = block_time_measurements \o new
                         /\ blocks_produced' = blocks_produced + (h - last_block)
                         /\ last_block' = h
                         /\ last_block_time' = now
                ELSE UNCHANGED <<block_times, block_time_measurements, blocks_produced,
                                 last_block, last_block_time>>
    /\ UNCHANGED <<load_pc, num_accounts, tx_count, load_duration, load_start_time,
                   last_batch_time, load_wake, nonce_counters, tasks, sent, load_error>>
    /\ UNCHANGED <<histVars, runVars>>
    /\ UNCHANGED <<envVars, mon_duration, mon_start_time, start_real_time, start_block,
                   last_timestamp, current_block, mon_wake, mon_report>>

(* orig: the poll of the height; a new height is followed by a read of the block *)
MonPollOrig ==
    /\ mon_pc = "sleep"
    /\ variant = "orig"
    /\ now >= mon_wake
    /\ \E ok \in BOOLEAN : \E h \in Answers :
        IF ~ok
        THEN /\ mon_pc' = AfterPollError(variant)
             /\ last_poll' = "error"
             /\ failed' = FailedAfterPollError(failed)
             /\ UNCHANGED current_block
        ELSE /\ last_poll' = Answered(h, last_block)
             /\ UNCHANGED failed
             /\ IF NewHeight(h, last_block)
                THEN /\ current_block' = h
                     /\ mon_pc' = "fetch_block"
                ELSE /\ mon_pc' = "loop"
                     /\ UNCHANGED current_block
    /\ UNCHANGED <<load_pc, num_accounts, tx_count, load_duration, load_start_time,
                   last_batch_time, load_wake, nonce_counters, tasks, sent, load_error>>
    /\ UNCHANGED <<histVars, runVars>>
    /\ UNCHANGED <<envVars, mon_duration, mon_start_time, start_real_time, start_block,
                   last_block, last_block_time, last_timestamp, blocks_produced,
                   block_times, block_time_measurements, mon_wake, mon_report>>

(* orig: get_block_by_number(current_block) answers *)
MonFetchBlock ==
    /\ mon_pc = "fetch_block"
    /\ \E ok \in BOOLEAN :
        IF ok
        THEN LET current_timestamp == chain[current_block]
             IN  /\ mon_pc' = "loop"
                 /\ last_poll' = "answered"
                 /\ block_times' =
                        IF last_timestamp # None /\ last_timestamp # 0
                        THEN Append(block_times,
                                    TimestampSample(current_timestamp, last_timestamp))
                        ELSE block_times
                 /\ last_block' = current_block
                 /\ last_timestamp' = current_timestamp
                 /\ blocks_produced' = blocks_produced + 1
                 /\ UNCHANGED failed
        ELSE /\ mon_pc' = AfterPollError(variant)
             /\ last_poll' = "error"
             /\ failed' = FailedAfterPollError(failed)
             /\ UNCHANGED <<block_times, last_block, last_timestamp, blocks_produced>>
    /\ UNCHANGED <<load_pc, num_accounts, tx_count, load_duration, load_start_time,
                   last_batch_time, load_wake, nonce_counters, tasks, sent, load_error>>
    /\ UNCHANGED <<histVars, runVars>>
    /\ UNCHANGED <<envVars, mon_duration, mon_start_time, start_real_time, start_block,
                   last_block_time, current_block, block_time_measurements, mon_wake,
                   mon_report>>

(* simple: one read of the latest block carries its number and its timestamp *)
MonPollSimple ==
    /\ mon_pc = "sleep"
    /\ variant = "simple"
    /\ now >= mon_wake
    /\ \E ok \in BOOLEAN : \E h \in Answers :
        IF ~ok
        THEN /\ mon_pc' = AfterPollError(variant)
             /\ last_poll' = "error"
             /\ UNCHANGED <<block_times, blocks_produced, last_block, last_timestamp>>
        ELSE /\ mon_pc' = "loop"
             /\ last_poll' = Answered(h, last_block)
             /\ IF NewHeight(h, last_block)
                THEN /\ block_times' = Append(block_times,
                                              TimestampSample(chain[h], last_timestamp))
                     /\ blocks_produced' = blocks_produced + 1
                     /\ last_block' = h
                     /\ last_timestamp' = chain[h]
                ELSE UNCHANGED <<block_times, blocks_produced, last_block,
                                 last_timestamp>>
    /\ UNCHANGED <<loadVars, histVars, runVars>>
    /\ UNCHANGED <<envVars, mon_duration, mon_start_time, start_real_time, start_block,
                   last_block_time, current_block, block_time_measurements, mon_wake,
                   mon_report>>

(* min(data), max(data) over the samples *)
MinSample(s) ==
    LET x == CHOOSE x \in {s[i] : i \in DOMAIN s} :
                 \A i \in DOMAIN s : RatLeq(x, s[i])
    IN  Quot(x.num, x.den)
MaxSample(s) ==
    LET x == CHOOSE x \in {s[i] : i \in DOMAIN s} :
                 \A i \in DOMAIN s : RatLeq(s[i], x)
    IN  Quot(x.num, x.den)

(* the value of a sample, without the note of where it came from *)
ValueOf(x) == Quot(x.num, x.den)
RatSub(a, b) == [num |-> a.num * b.den - b.num * a.den, den |-> a.den * b.den]

(* the same number in lowest terms (a quotient by 0 is left as it is) *)
RECURSIVE Gcd(_, _)
Gcd(a, b) == IF b = 0 THEN a ELSE Gcd(b, a % b)
Abs(n) == IF n < 0 THEN -n ELSE n
Reduce(q) ==
    LET g == Gcd(Abs(q.num), Abs(q.den))
    IN  IF q.den = 0 \/ g = 0 THEN q ELSE Quot(q.num \div g, q.den \div g)

(* a copy that is left in the order of the list *)
NotSorted(s) == s

(* sorted(data): a new list, ascending, equal values in their old order;    *)
(* rank[i] is the number of elements that come before element i             *)
Sorted(s) ==
    LET before(j, i) == \/ ~RatLeq(s[i], s[j])
                        \/ RatLeq(s[j], s[i]) /\ j < i
        rank == [i \in DOMAIN s |-> Cardinality({j \in DOMAIN s : before(j, i)})]
    IN  [k \in DOMAIN s |-> s[CHOOSE i \in DOMAIN s : rank[i] = k - 1]]

(* statistics.stdev(data): the square root of sum((x - mean)^2) / (N - 1),   *)
(* kept as the quotient under the root; N = 1 makes the divisor 0            *)
RECURSIVE SumSquaresRange(_, _, _)
SumSquaresRange(s, lo, hi) ==
    IF lo > hi THEN [num |-> 0, den |-> 1]
    ELSE IF lo = hi
    THEN LET x == Reduce(ValueOf(s[lo])) IN Quot(x.num * x.num, x.den * x.den)
    ELSE LET mid == (lo + hi) \div 2
         IN  Reduce(RatAdd(SumSquaresRange(s, lo, mid), SumSquaresRange(s, mid + 1, hi)))
SumSquares(s) == SumSquaresRange(s, 1, Len(s))
Stdev(s) ==
    LET t == Reduce(SumSamples(s))
        ss == Reduce(RatSub(SumSquares(s), Quot(t.num * t.num, t.den * t.den * Len(s))))
    IN  [kind |-> "value", var |-> Quot(ss.num, ss.den * (Len(s) - 1))]

(* a statistic that is not printed; the number 0 printed in its place *)
Absent == [kind |-> "absent"]
ZeroStd == [kind |-> "value", var |-> Quot(0, 1)]
Shown(q) == [kind |-> "value", val |-> q]

(* sum(1 for t in self.block_times if t <= limit) *)
CountUnder(s, limit) == Cardinality({i \in DOMAIN s : RatLeq(ValueOf(s[i]), Quot(limit, 1))})

(* int(len(sorted_times) * 0.9), * 0.95, * 0.99: the product of the length   *)
(* and the double nearest to p / 100, truncated; for every length up to      *)
(* 200000 the double product truncates to floor(p * N / 100)                 *)
IntOfProduct(n, p) == (n * p) \div 100

(* statistics.quantiles(data, n=20)[18], method 'exclusive': the 19th of the *)
(* 20-quantile cut points, interpolated between two neighbours of the sorted *)
(* copy                                                                      *)
Quantile95(s) ==
    LET data == Sorted(s)
        ld == Len(s)
        m == ld + 1
        j0 == (19 * m) \div 20
        j == IF j0 < 1 THEN 1 ELSE IF j0 > ld - 1 THEN ld - 1 ELSE j0
        delta == 19 * m - j * 20
        lo == ValueOf(data[j])
        hi == ValueOf(data[j + 1])
        sum == RatAdd(Quot(lo.num * (20 - delta), lo.den), Quot(hi.num * delta, hi.den))
    IN  Quot(sum.num, sum.den * 20)

(* simple, "Final statistics": what monitor_block_production prints under    *)
(* "if self.block_times"                                                     *)
SimpleStats(times) ==
    LET n == Len(times)
        sorted_times == Sorted(times)
    IN  IF times = << >>
        THEN [kind |-> "no_data"]
        ELSE [kind |-> "stats",
              n |-> n,
              avg |-> Mean(times),
              std |-> IF n > 1 THEN Stdev(times) ELSE Absent,
              min |-> IF n > 1 THEN Shown(MinSample(times)) ELSE Absent,
              max |-> IF n > 1 THEN Shown(MaxSample(times)) ELSE Absent,
              p50 |-> IF n > 1 /\ n >= 10
                      THEN Shown(ValueOf(sorted_times[(n \div 2) + 1])) ELSE Absent,
              p90 |-> IF n > 1 /\ n >= 10
                      THEN Shown(ValueOf(sorted_times[IntOfProduct(n, 90) + 1])) ELSE Absent,
              p95 |-> IF n > 1 /\ n >= 10
                      THEN Shown(ValueOf(sorted_times[IntOfProduct(n, 95) + 1])) ELSE Absent,
              p99 |-> IF n > 1 /\ n >= 10
                      THEN Shown(ValueOf(IF n > 100
                                         THEN sorted_times[IntOfProduct(n, 99) + 1]
                                         ELSE sorted_times[n]))
                      ELSE Absent,
              under_85 |-> CountUnder(times, 85),
              under_100 |-> CountUnder(times, 100),
              under_150 |-> CountUnder(times, 150)]

(* orig, fixed, tps20k, Phase 3: what run_full_test prints under             *)
(* "if self.block_times"; no 50th, 90th or 99th percentile is computed       *)
AnalysisStats(times) ==
    LET n == Len(times)
    IN  IF times = << >>
        THEN [kind |-> "no_data"]
        ELSE [kind |-> "stats",
              n |-> n,
              avg |-> Mean(times),
              std |-> IF n > 1 THEN Stdev(times) ELSE ZeroStd,
              min |-> Shown(MinSample(times)),
              max |-> Shown(MaxSample(times)),
              p50 |-> Absent,
              p90 |-> Absent,
              p95 |-> Shown(IF n > 20 THEN Quantile95(times) ELSE MaxSample(times)),
              p99 |-> Absent,
              under_85 |-> CountUnder(times, 85),
              under_100 |-> CountUnder(times, 100),
              under_150 |-> 0]

(* a statistics pass that sorts self.block_times itself *)
SamplesAfterStatsSortedInPlace(times) == Sorted(times)

(* the statistics read self.block_times and sort a copy (sorted(...), and    *)
(* the copy statistics.quantiles makes): the list stays as it was            *)
SamplesAfterStats(times) == times

(* closing statistics that divide by the block count without looking at it *)
MonitorSummaryUnguarded(v, produced, total_ms, times) ==
    CASE v \in Measured -> [kind |-> "stats", avg |-> Quot(total_ms, produced)]
      [] v = "simple" -> [kind |-> "stats", avg |-> Mean(times)]
      [] OTHER -> [kind |-> "none", avg |-> Quot(0, 1)]

(* The closing statistics of a monitor.  fixed, tps20k: the overall average  *)
(* is printed under "if blocks_produced > 0"; simple: the statistics are     *)
(* printed under "if self.block_times", else "No new blocks detected";       *)
(* orig prints nothing.                                                      *)
MonitorSummary(v, produced, total_ms, times) ==
    CASE v \in Measured ->
            IF produced > 0
            THEN [kind |-> "stats", avg |-> Quot(total_ms, produced)]
            ELSE [kind |-> "no_data", avg |-> Quot(0, 1)]
      [] v = "simple" ->
            IF times # << >>
            THEN [kind |-> "stats", avg |-> Mean(times)]
            ELSE [kind |-> "no_data", avg |-> Quot(0, 1)]
      [] OTHER -> [kind |-> "none", avg |-> Quot(0, 1)]

MonFinish ==
    /\ mon_pc = "finish"
    /\ LET s == MonitorSummary(variant, blocks_produced,
                               (now - start_real_time) * MsPerTick, block_times)
       IN  IF s.kind = "stats" /\ Raises(s.avg)
           THEN /\ mon_pc' = "raised"
                /\ mon_report' = "ZeroDivisionError"
           ELSE /\ mon_pc' = "done"
                /\ mon_report' = s.kind
    /\ IF variant = "simple"
       THEN /\ stats_report' = SimpleStats(block_times)
            /\ block_times' = SamplesAfterStats(block_times)
       ELSE UNCHANGED <<stats_report, block_times>>
    /\ UNCHANGED <<loadVars, histVars, run_pc, stress_duration, monitor_duration,
                   verdict, verdicts, baseline_report, loaded_started>>
    /\ UNCHANGED <<envVars, mon_duration, mon_start_time, start_real_time, start_block,
                   last_block, last_block_time, last_timestamp, current_block,
                   blocks_produced, block_time_measurements, mon_wake, last_poll>>

MonitorNext ==
    \/ MonStart
    \/ MonInitialRead
    \/ MonLoop
    \/ MonPollMeasured
    \/ MonPollOrig
    \/ MonFetchBlock
    \/ MonPollSimple
    \/ MonFinish

----------------------------------------------------------------------------
(* stress_test_transactions (orig, fixed), stress_test_transactions_optimized *)
(* (tps20k) and their send_transaction_batch(_optimized) tasks                *)

(* Bounds: the pool, the senders of a batch and the batch size are scaled    *)
(* down (the scripts use min(100, n) or min(50, n) senders and batches of    *)
(* 2000 or 1000 transactions).                                               *)
MaxAccounts == 3
MaxSeed == 1
SenderCap == 2
TxPerBatch == 2
LoadDuration == 5

(* tps_target, a parameter of the load phase: transactions per second *)
TpsTarget == 100
TicksPerSecond == 1000 \div MsPerTick

Min(a, b) == IF a <= b THEN a ELSE b
LoadVariants == {"orig", "fixed", "tps20k"}
Accounts == 1..num_accounts

(* batch_interval = transactions_per_batch / tps_target, in ticks *)
batch_interval == (transactions_per_batch * TicksPerSecond) \div TpsTarget
concurrent_senders == Min(SenderCap, num_accounts)
(* transactions_per_batch // concurrent_senders *)
txs_per_account == transactions_per_batch \div concurrent_senders

(* the transaction counts the chain may hold for a pool of n accounts: not   *)
(* all zero and not all equal                                               *)
SeedChoices(n) == {[a \in 1..n |-> (a + k) % (MaxSeed + 1)] : k \in 0..MaxSeed}

(* nonce_counters starts from get_transaction_count; orig starts it from 0 *)
Seed(a) == IF variant = "orig" THEN 0 ELSE tx_count[a]

NoTask == [st |-> "none", nonce_start |-> 0, count |-> 0, resp |-> << >>, idx |-> 0]
(* a task that has returned: its locals are gone *)
DoneTask == [st |-> "done", nonce_start |-> 0, count |-> 0, resp |-> << >>, idx |-> 0]
NewTask(nonce, m) ==
    [st |-> "new", nonce_start |-> nonce, count |-> m, resp |-> << >>, idx |-> 0]

(* what a submission resolves to: a response carrying 'result', a response   *)
(* without it, a response whose json() raises, an exception of the transport *)
Outcomes == {"accepted", "rejected", "badjson", "exception"}

(* a counter that is not advanced after its value was handed to a task *)
ReserveNoAdvance(counter, m) == counter

(* nonce_counters[account['address']] += txs_per_account *)
Reserve(counter, m) == counter + m

(* the accounts that k picks hit when an account may be picked again *)
SamplesWithRepeats(k) ==
    {S \in SUBSET Accounts : Cardinality(S) <= k /\ (k > 0 => S # {})}

(* random.sample(self.accounts, k) *)
Samples(k) == {S \in SUBSET Accounts : Cardinality(S) = k}

(* a share of the batch that is rounded up *)
PerSenderRoundedUp(b, k) == (b + k - 1) \div k

(* transactions_per_batch // concurrent_senders (tps20k),                    *)
(* transactions_per_batch // len(sending_accounts) (orig, fixed)             *)
PerSender(b, k) == b \div k

(* the for loop over sending_accounts: a task per sender, its counter advanced *)
DispatchFrom(base, S) ==
    LET m == IF S = {} THEN 0 ELSE PerSender(transactions_per_batch, Cardinality(S))
        range(a) == base[a]..(base[a] + m - 1)
    IN  /\ tasks' = [a \in Accounts |-> IF a \in S THEN NewTask(base[a], m) ELSE NoTask]
        /\ nonce_counters' =
              [a \in Accounts |-> IF a \in S THEN Reserve(base[a], m) ELSE base[a]]
        /\ handed' = [a \in Accounts |-> IF a \in S THEN handed[a] \cup range(a)
                                                    ELSE handed[a]]
        /\ handed_twice' = (handed_twice \/ \E a \in S : handed[a] \cap range(a) # {})
        /\ reserved_total' =
              [a \in Accounts |-> IF a \in S THEN reserved_total[a] + m
                                            ELSE reserved_total[a]]
        /\ batch_no' = batch_no + 1
        /\ batch_started_at' = now

NoDispatchFrom(base) ==
    /\ nonce_counters' = base
    /\ UNCHANGED <<tasks, handed, handed_twice, reserved_total, batch_no,
                   batch_started_at>>

(* tps20k, from the while test to the next await *)
Loop20k(start, lbt, base) ==
    IF now - start < load_duration
    THEN LET time_since_last_batch == now - lbt
         IN  IF time_since_last_batch < batch_interval
             THEN /\ load_pc' = "rate_sleep"
                  /\ load_wake' = now + (batch_interval - time_since_last_batch)
                  /\ NoDispatchFrom(base)
             ELSE /\ \E S \in Samples(concurrent_senders) : DispatchFrom(base, S)
                  /\ load_pc' = "gather"
                  /\ UNCHANGED load_wake
    ELSE /\ load_pc' = "done"
         /\ NoDispatchFrom(base)
         /\ UNCHANGED load_wake

(* orig and fixed, from the while test to the next await; gather() of no     *)
(* task is done at once, so with an empty pool the sleep is the next await   *)
LoopOF(start, base) ==
    IF now - start < load_duration
    THEN /\ \E S \in Samples(concurrent_senders) : DispatchFrom(base, S)
         /\ IF concurrent_senders = 0
            THEN /\ load_pc' = "batch_sleep"
                 /\ load_wake' = now + batch_interval
            ELSE /\ load_pc' = "gather"
                 /\ UNCHANGED load_wake
    ELSE /\ load_pc' = "done"
         /\ NoDispatchFrom(base)
         /\ UNCHANGED load_wake

(* from the call to the first await *)
LoadStart ==
    /\ load_pc = "start"
    /\ load_start_time' = now
    /\ LET base == [a \in Accounts |-> Seed(a)]
       IN  IF variant = "tps20k"
           THEN /\ last_batch_time' = now
                /\ IF concurrent_senders = 0
                   THEN /\ load_pc' = "raised"
                        /\ load_error' = "ZeroDivisionError"
                        /\ NoDispatchFrom(base)
                        /\ UNCHANGED load_wake
                   ELSE /\ Loop20k(now, now, base)
                        /\ UNCHANGED load_error
           ELSE /\ LoopOF(now, base)
                /\ UNCHANGED <<last_batch_time, load_error>>
    /\ UNCHANGED runVars
    /\ UNCHANGED <<envVars, monVars, num_accounts, tx_count, load_duration, sent,
                   failed, submitted, all_accepted, accepted_total, transport_error_seen,
                   post_log>>

(* tps20k: the rate-limiting sleep is over *)
LoadRateSleepOver ==
    /\ load_pc = "rate_sleep"
    /\ now >= load_wake
    /\ \E S \in Samples(concurrent_senders) : DispatchFrom(nonce_counters, S)
    /\ load_pc' = "gather"
    /\ UNCHANGED runVars
    /\ UNCHANGED <<envVars, monVars, num_accounts, tx_count, load_duration, load_error,
                   load_start_time, last_batch_time, load_wake, sent, failed,
                   submitted, all_accepted, accepted_total, transport_error_seen,
                   post_log>>

(* orig, fixed: asyncio.sleep(batch_delay) is over *)
LoadBatchSleepOver ==
    /\ load_pc = "batch_sleep"
    /\ now >= load_wake
    /\ LoopOF(load_start_time, nonce_counters)
    /\ UNCHANGED runVars
    /\ UNCHANGED <<envVars, monVars, num_accounts, tx_count, load_duration, load_error,
                   load_start_time, last_batch_time, sent, failed, submitted,
                   all_accepted, accepted_total, transport_error_seen,
                   post_log>>

(* a gather that does not wait for its tasks *)
GatherReturnsAtOnce == TRUE

(* the await of asyncio.gather over the tasks returns when every task has *)
GatherReturns == \A a \in Accounts : tasks[a].st \in {"none", "done"}

LoadGatherDone ==
    /\ load_pc = "gather"
    /\ GatherReturns
    /\ IF variant = "tps20k"
       THEN /\ last_batch_time' = now
            /\ Loop20k(load_start_time, now, nonce_counters)
       ELSE /\ load_pc' = "batch_sleep"
            /\ load_wake' = now + batch_interval
            /\ NoDispatchFrom(nonce_counters)
            /\ UNCHANGED last_batch_time
    /\ UNCHANGED runVars
    /\ UNCHANGED <<envVars, monVars, num_accounts, tx_count, load_duration, load_error,
                   load_start_time, sent, failed, submitted, all_accepted, accepted_total, transport_error_seen,
                   post_log>>

(* the first index >= i of resp that is not an exception (Len + 1 if none) *)
RECURSIVE NextResponse(_, _)
NextResponse(resp, i) ==
    IF i > Len(resp) \/ resp[i] # "exception" THEN i ELSE NextResponse(resp, i + 1)

(* a response whose json() raises is counted in neither counter *)
ClassifyDropsBadJson(kind) ==
    IF kind = "accepted" THEN "sent" ELSE IF kind = "badjson" THEN "neither" ELSE "failed"

(* an accepted submission counted as failed *)
ClassifyInverted(kind) == IF kind = "accepted" THEN "failed" ELSE "sent"

(* 'result' in result -> sent; anything else -> failed *)
Classify(kind) == IF kind = "accepted" THEN "sent" ELSE "failed"

(* a signing failure that gives the reserved range back *)
AfterSigningFailureRollBack(counter, m) == counter - m

(* nothing touches nonce_counters when Account.sign_transaction raises: the  *)
(* counter keeps the value the dispatch loop gave it                         *)
AfterSigningFailure(counter, m) == counter

(* posts made from the last transaction of the range to the first *)
PostOrderReversed(nonce_start, m) == [i \in 1..m |-> nonce_start + m - i]

(* for i in range(batch_size): the transaction with nonce nonce_start + i is *)
(* built and signed and its session.post(...) is made, in the order of i;    *)
(* the gather takes the posts in the order of the list                       *)
PostOrder(nonce_start, m) == [i \in 1..m |-> nonce_start + i - 1]

(* a task runs up to its gather: it signs its transactions, then posts them; *)
(* a signing error leaves the task by an exception, which the gather of the  *)
(* load loop hands on                                                        *)
TaskStart(a) ==
    /\ tasks[a].st = "new"
    /\ \E signed \in BOOLEAN :
        IF tasks[a].count = 0
        THEN /\ signed
             /\ tasks' = [tasks EXCEPT ![a] = DoneTask]
             /\ UNCHANGED <<load_pc, load_error, nonce_counters, submitted, all_accepted,
                            post_log>>
        ELSE IF signed
        THEN /\ tasks' = [tasks EXCEPT ![a].st = "posted",
                                       ![a].resp = [i \in 1..tasks[a].count |-> "inflight"]]
             /\ submitted' = submitted + tasks[a].count
             /\ post_log' = [post_log EXCEPT
                                ![a] = @ \o PostOrder(tasks[a].nonce_start, tasks[a].count)]
             /\ UNCHANGED <<load_pc, load_error, nonce_counters, all_accepted>>
        ELSE /\ tasks' = [tasks EXCEPT ![a].st = "raised"]
             /\ load_pc' = IF load_pc = "gather" THEN "raised" ELSE load_pc
             /\ load_error' = IF load_pc = "gather" THEN "SigningError" ELSE load_error
             /\ nonce_counters' =
                   [nonce_counters EXCEPT
                       ![a] = AfterSigningFailure(nonce_counters[a], tasks[a].count)]
             /\ all_accepted' = FALSE
             /\ UNCHANGED <<submitted, post_log>>
    /\ UNCHANGED runVars
    /\ UNCHANGED <<envVars, monVars, num_accounts, tx_count, load_duration,
                   load_start_time, last_batch_time, load_wake, sent,
                   failed, batch_no, batch_started_at, handed, handed_twice,
                   reserved_total, accepted_total, transport_error_seen>>

(* a gather of the submissions that hands the first exception on *)
return_exceptions_off == FALSE

(* asyncio.gather(..., return_exceptions=True) over the submissions of a task *)
return_exceptions == TRUE

(* the endpoint, or the transport, resolves one submission *)
Respond(a, i) ==
    /\ tasks[a].st = "posted"
    /\ tasks[a].resp[i] = "inflight"
    /\ \E o \in Outcomes :
        /\ IF o = "exception" /\ ~return_exceptions
           THEN /\ tasks' = [tasks EXCEPT ![a].resp[i] = o, ![a].st = "raised"]
                /\ load_pc' = IF load_pc = "gather" THEN "raised" ELSE load_pc
                /\ load_error' = IF load_pc = "gather" THEN "TransportError"
                                                       ELSE load_error
           ELSE /\ tasks' = [tasks EXCEPT ![a].resp[i] = o]
                /\ UNCHANGED <<load_pc, load_error>>
        /\ all_accepted' = (all_accepted /\ o = "accepted")
        /\ accepted_total' = IF o = "accepted" THEN accepted_total + 1
                                               ELSE accepted_total
        /\ transport_error_seen' = (transport_error_seen \/ o = "exception")
    /\ UNCHANGED post_log
    /\ UNCHANGED runVars
    /\ UNCHANGED <<envVars, monVars, num_accounts, tx_count, load_duration,
                   load_start_time, last_batch_time, load_wake, nonce_counters, sent,
                   failed, batch_no, batch_started_at, submitted, handed, handed_twice,
                   reserved_total>>

(* the task's gather is done: the loop over the responses runs up to the     *)
(* first await response.json(), counting the exceptions before it            *)
TaskResume(a) ==
    /\ tasks[a].st = "posted"
    /\ \A i \in 1..tasks[a].count : tasks[a].resp[i] # "inflight"
    /\ LET j == NextResponse(tasks[a].resp, 1)
       IN  /\ failed' = failed + (j - 1)
           /\ tasks' = [tasks EXCEPT ![a] = IF j > tasks[a].count
                                            THEN DoneTask
                                            ELSE [@ EXCEPT !.idx = j, !.st = "counting"]]
    /\ UNCHANGED runVars
    /\ UNCHANGED <<envVars, monVars, load_pc, num_accounts, tx_count, load_duration, load_error,
                   load_start_time, last_batch_time, load_wake, nonce_counters, sent,
                   histVars>>

(* a counting loop that sets the counter of the sender back to the count of  *)
(* the chain when a submission was rejected                                  *)
CountersAfterOutcomeResync(counters, a, kind) ==
    IF kind = "rejected" THEN [counters EXCEPT ![a] = tx_count[a]] ELSE counters

(* the loop over the responses has the outcome but neither the account's     *)
(* counter nor the nonce in reach: nonce_counters is a local of the load     *)
(* loop and is not passed to the send task                                   *)
CountersAfterOutcome(counters, a, kind) == counters

(* an increment that the increment of another task overwrites *)
IncrementOverwritten(n) == n

(* self.tx_results[...] += 1: the read, the addition and the write run with  *)
(* no await between them, so no other task runs in between                   *)
Incremented(n) == n + 1

(* response.json() of response idx is back: it is counted, and the loop runs *)
(* on to the next await                                                      *)
TaskCount(a) ==
    /\ tasks[a].st = "counting"
    /\ LET i == tasks[a].idx
           j == NextResponse(tasks[a].resp, i + 1)
           c == Classify(tasks[a].resp[i])
       IN  /\ sent' = IF c = "sent" THEN Incremented(sent) ELSE sent
           /\ failed' = (IF c = "failed" THEN Incremented(failed) ELSE failed)
                            + (j - (i + 1))
           /\ tasks' = [tasks EXCEPT ![a] = IF j > tasks[a].count
                                            THEN DoneTask
                                            ELSE [@ EXCEPT !.idx = j]]
           /\ nonce_counters' = CountersAfterOutcome(nonce_counters, a, tasks[a].resp[i])
    /\ UNCHANGED runVars
    /\ UNCHANGED <<envVars, monVars, load_pc, num_accounts, tx_count, load_duration, load_error,
                   load_start_time, last_batch_time, load_wake, histVars>>

TaskNext ==
    \/ \E a \in Accounts : TaskStart(a)
    \/ \E a \in Accounts : \E i \in 1..tasks[a].count : Respond(a, i)
    \/ \E a \in Accounts : TaskResume(a)
    \/ \E a \in Accounts : TaskCount(a)

LoadNext ==
    \/ LoadStart
    \/ LoadRateSleepOver
    \/ LoadBatchSleepOver
    \/ LoadGatherDone
    \/ TaskNext

----------------------------------------------------------------------------
(* run_full_test (orig, fixed, tps20k) *)

(* Bounds: the durations of the phases, in ticks (the scripts run the        *)
(* baseline for 30 s and main asks for 30 s of load and 45 s of monitoring)  *)
BaselineDuration == 2
StressDuration == 2
MonitorDuration == 3

(* the thresholds of the verdict, in ms and in transactions per second *)
TargetBlockMs == 85
AcceptableBlockMs == 100
TargetTps == 18000
MinTps == 15000

RatOf(n) == [num |-> n, den |-> 1]
RatGeq(a, b) == RatLeq(b, a)

(* a verdict whose comparisons leave the boundary out *)
VerdictStrict(v, avg_block_time, actual_tps) ==
    IF v = "tps20k"
    THEN IF ~RatGeq(avg_block_time, RatOf(TargetBlockMs))
            /\ ~RatLeq(actual_tps, RatOf(TargetTps))
         THEN "top"
         ELSE IF ~RatGeq(avg_block_time, RatOf(AcceptableBlockMs))
                 /\ ~RatLeq(actual_tps, RatOf(MinTps))
              THEN "middle"
              ELSE "failing"
    ELSE IF ~RatGeq(avg_block_time, RatOf(TargetBlockMs)) THEN "top"
         ELSE IF ~RatGeq(avg_block_time, RatOf(AcceptableBlockMs)) THEN "middle"
              ELSE "failing"

(* the if / elif / else under VERDICT *)
Verdict(v, avg_block_time, actual_tps) ==
    IF v = "tps20k"
    THEN IF RatLeq(avg_block_time, RatOf(TargetBlockMs))
            /\ RatGeq(actual_tps, RatOf(TargetTps))
         THEN "top"
         ELSE IF RatLeq(avg_block_time, RatOf(AcceptableBlockMs))
                 /\ RatGeq(actual_tps, RatOf(MinTps))
              THEN "middle"
              ELSE "failing"
    ELSE IF RatLeq(avg_block_time, RatOf(TargetBlockMs)) THEN "top"
         ELSE IF RatLeq(avg_block_time, RatOf(AcceptableBlockMs)) THEN "middle"
              ELSE "failing"

(* actual_tps = self.tx_results['sent'] / stress_duration, per second *)
ActualTps(n_sent, duration) == Quot(n_sent * TicksPerSecond, duration)

(* nothing is printed for a phase *)
NoStats == [kind |-> "none"]

(* Phase 1, "if self.block_times": the mean, the minimum and the maximum of  *)
(* self.block_times are printed, over however many samples the list holds    *)
(* (the standard deviation, a function of the same list, is left out)        *)
BaselineStats(times) ==
    IF times # << >>
    THEN [kind |-> "stats", n |-> Len(times), avg |-> Mean(times),
          min |-> MinSample(times), max |-> MaxSample(times)]
    ELSE NoStats

(* Phase 3 prints its statistics and its verdict under "if self.block_times" *)
AnalysisVerdicts(times) == IF times # << >> THEN 1 ELSE 0

(* an order of the phases that goes from the baseline to the analysis *)
NextPhaseSkipsLoaded(p) ==
    CASE p = "idle" -> "baseline"
      [] p = "baseline" -> "analysis"
      [] p = "loaded" -> "analysis"
      [] p = "analysis" -> "done"

(* the order of the body of run_full_test: the connection check, phase 1,   *)
(* phase 2, phase 3, the return                                             *)
NextPhase(p) ==
    CASE p = "idle" -> "baseline"
      [] p = "baseline" -> "loaded"
      [] p = "loaded" -> "analysis"
      [] p = "analysis" -> "done"

(* a gather that is back as soon as one of the two tasks is *)
GatherFirstDone(stress_task, monitor_task) ==
    stress_task = "done" \/ monitor_task = "done"

(* await asyncio.gather(stress_task, monitor_task) is back when both are *)
GatherBothDone(stress_task, monitor_task) ==
    stress_task = "done" /\ monitor_task = "done"

(* asyncio.run cancels what is left when run_full_test ends by an exception *)
CancelAll ==
    /\ mon_pc' = IF MonitorRunning \/ mon_pc = "start" THEN "cancelled" ELSE mon_pc
    /\ load_pc' = IF load_pc \in {"start", "rate_sleep", "gather", "batch_sleep"}
                  THEN "cancelled" ELSE load_pc
    /\ tasks' = [a \in Accounts |-> IF TaskRunning(tasks[a]) THEN NoTask ELSE tasks[a]]

(* the connection check, then phase 1 up to its await of monitor_blocks(30) *)
RunStart ==
    /\ run_pc = "idle"
    /\ \E connected \in BOOLEAN :
        IF connected
        THEN /\ run_pc' = NextPhase(run_pc)
             /\ mon_pc' = "start"
             /\ mon_duration' = BaselineDuration
        ELSE /\ run_pc' = "returned"
             /\ UNCHANGED <<mon_pc, mon_duration>>
    /\ UNCHANGED <<envVars, mon_start_time, start_real_time, start_block, last_block,
                   last_block_time, last_timestamp, current_block, blocks_produced,
                   block_times, block_time_measurements, mon_wake, mon_report, last_poll>>
    /\ UNCHANGED <<loadVars, histVars, stress_duration, monitor_duration, verdict,
                   verdicts, baseline_report, stats_report, loaded_started>>

(* monitor_blocks(30) is back: the baseline is printed, self.block_times is  *)
(* reset and the two tasks of phase 2 are created                            *)
RunBaselineDone ==
    /\ run_pc = "baseline"
    /\ mon_pc = "done"
    /\ run_pc' = NextPhase(run_pc)
    /\ baseline_report' = BaselineStats(block_times)
    /\ block_times' = << >>
    /\ load_pc' = "start"
    /\ load_duration' = stress_duration
    /\ mon_pc' = "start"
    /\ mon_duration' = monitor_duration
    /\ loaded_started' = TRUE
    \* the locals of the monitor_blocks call that returned are gone
    /\ mon_start_time' = 0
    /\ start_real_time' = 0
    /\ start_block' = 0
    /\ last_block' = 0
    /\ last_block_time' = 0
    /\ last_timestamp' = None
    /\ current_block' = 0
    /\ blocks_produced' = 0
    /\ block_time_measurements' = << >>
    /\ mon_wake' = 0
    /\ mon_report' = "none"
    /\ last_poll' = "none"
    /\ UNCHANGED <<envVars, num_accounts, tx_count, load_error, load_start_time,
                   last_batch_time,
                   load_wake, nonce_counters, tasks, sent, failed, histVars,
                   stress_duration, monitor_duration, verdict, verdicts,
                   stats_report>>

(* an awaited coroutine ended by an exception: run_full_test ends by it *)
RunRaise ==
    /\ \/ run_pc = "baseline" /\ mon_pc = "raised"
       \/ run_pc = "loaded" /\ (mon_pc = "raised" \/ load_pc = "raised")
    /\ run_pc' = "raised"
    /\ CancelAll
    /\ UNCHANGED <<envVars, mon_duration, mon_start_time, start_real_time, start_block,
                   last_block, last_block_time, last_timestamp, current_block,
                   blocks_produced, block_times, block_time_measurements, mon_wake,
                   mon_report, last_poll>>
    /\ UNCHANGED <<num_accounts, tx_count, load_duration, load_error, load_start_time,
                   last_batch_time, load_wake, nonce_counters, sent, failed, histVars,
                   stress_duration, monitor_duration, verdict, verdicts,
                   baseline_report, stats_report, loaded_started>>

(* asyncio.gather(stress_task, monitor_task) is back *)
RunLoadedDone ==
    /\ run_pc = "loaded"
    /\ GatherBothDone(load_pc, mon_pc)
    /\ run_pc' = NextPhase(run_pc)
    /\ UNCHANGED <<envVars, monVars, loadVars, histVars, stress_duration,
                   monitor_duration, verdict, verdicts, baseline_report,
                   stats_report, loaded_started>>

(* Phase 3: the statistics and the verdict *)
RunAnalyze ==
    /\ run_pc = "analysis"
    /\ run_pc' = NextPhase(run_pc)
    /\ verdicts' = verdicts + AnalysisVerdicts(block_times)
    /\ verdict' = IF AnalysisVerdicts(block_times) > 0
                  THEN Verdict(variant, Mean(block_times),
                               ActualTps(sent, stress_duration))
                  ELSE verdict
    /\ stats_report' = AnalysisStats(block_times)
    /\ block_times' = SamplesAfterStats(block_times)
    /\ UNCHANGED <<mon_pc, mon_duration, mon_start_time, start_real_time, start_block,
                   last_block, last_block_time, last_timestamp, current_block,
                   blocks_produced, block_time_measurements, mon_wake, mon_report,
                   last_poll>>
    /\ UNCHANGED <<envVars, loadVars, histVars, stress_duration,
                   monitor_duration, baseline_report, loaded_started>>

RunNext ==
    \/ RunStart
    \/ RunBaselineDone
    \/ RunRaise
    \/ RunLoadedDone
    \/ RunAnalyze

----------------------------------------------------------------------------
(* A monitor run on its own, on a freshly constructed object *)
InitEnv ==
    /\ variant \in Variants
    /\ transactions_per_batch = TxPerBatch
    /\ generate_load = FALSE
    /\ read_load = "none"
    /\ load_requests = 0
    /\ now = 0
    /\ chain = <<1>>

InitMonitorIdle ==
    /\ mon_duration = MonDuration
    /\ mon_start_time = 0
    /\ start_real_time = 0
    /\ start_block = 0
    /\ last_block = 0
    /\ last_block_time = 0
    /\ last_timestamp = None
    /\ current_block = 0
    /\ blocks_produced = 0
    /\ block_times = << >>
    /\ block_time_measurements = << >>
    /\ mon_wake = 0
    /\ mon_report = "none"
    /\ last_poll = "none"

InitLoadIdle ==
    /\ load_pc = "idle"
    /\ num_accounts = 0
    /\ tx_count = << >>
    /\ load_duration = 0
    /\ load_start_time = 0
    /\ last_batch_time = 0
    /\ load_wake = 0
    /\ nonce_counters = << >>
    /\ tasks = << >>
    /\ sent = 0
    /\ failed = 0
    /\ load_error = "none"
    /\ batch_no = 0
    /\ batch_started_at = None
    /\ submitted = 0
    /\ handed = << >>
    /\ handed_twice = FALSE
    /\ reserved_total = << >>
    /\ all_accepted = TRUE
    /\ accepted_total = 0
    /\ transport_error_seen = FALSE
    /\ post_log = [a \in 1..num_accounts |-> << >>]

InitRunIdle ==
    /\ run_pc = "standalone"
    /\ stress_duration = 0
    /\ monitor_duration = 0
    /\ verdict = "none"
    /\ verdicts = 0
    /\ baseline_report = NoStats
    /\ stats_report = NoStats
    /\ loaded_started = FALSE

InitMonitor ==
    /\ InitEnv
    /\ InitMonitorIdle
    /\ InitLoadIdle
    /\ InitRunIdle
    /\ mon_pc = "start"

NextMonitor ==
    \/ Tick
    \/ NewBlock
    \/ MonitorNext

SpecMonitor == InitMonitor /\ [][NextMonitor]_vars

(* A load phase run on its own, on a freshly constructed object *)
InitLoad ==
    /\ variant \in LoadVariants
    /\ transactions_per_batch = TxPerBatch
    /\ generate_load = FALSE
    /\ read_load = "none"
    /\ load_requests = 0
    /\ now = 0
    /\ chain = <<1>>
    /\ InitMonitorIdle
    /\ mon_pc = "idle"
    /\ load_pc = "start"
    /\ num_accounts \in 0..MaxAccounts
    /\ tx_count \in SeedChoices(num_accounts)
    /\ load_duration = LoadDuration
    /\ load_start_time = 0
    /\ last_batch_time = 0
    /\ load_wake = 0
    /\ nonce_counters = << >>
    /\ tasks = [a \in 1..num_accounts |-> NoTask]
    /\ sent = 0
    /\ failed = 0
    /\ load_error = "none"
    /\ batch_no = 0
    /\ batch_started_at = None
    /\ submitted = 0
    /\ handed = [a \in 1..num_accounts |-> {}]
    /\ handed_twice = FALSE
    /\ reserved_total = [a \in 1..num_accounts |-> 0]
    /\ all_accepted = TRUE
    /\ accepted_total = 0
    /\ transport_error_seen = FALSE
    /\ post_log = [a \in 1..num_accounts |-> << >>]
    /\ InitRunIdle

NextLoad ==
    \/ Tick
    \/ LoadNext

SpecLoad == InitLoad /\ [][NextLoad]_vars

----------------------------------------------------------------------------
(* Properties of the load generators, checked under SpecLoad *)

LoadFinished ==
    /\ load_pc = "done"
    /\ \A a \in Accounts : ~TaskRunning(tasks[a])

(* C1: for every account, the nonce ranges [start, start + count) handed to  *)
(* its send tasks over the batches of a load phase are pairwise disjoint and *)
(* their union is exactly [seed, seed + total count reserved).               *)
C1_NonceRangesContiguous ==
    /\ ~handed_twice
    /\ \A a \in Accounts :
          handed[a] = Seed(a)..(Seed(a) + reserved_total[a] - 1)

(* an account with earlier activity on the chain got ranges in two batches *)
C1_Witness ==
    /\ variant \in {"fixed", "tps20k"}
    /\ batch_no >= 2
    /\ \E a \in Accounts : tx_count[a] > 0 /\ reserved_total[a] >= 2 * txs_per_account
                            /\ txs_per_account >= 1
    /\ \E a \in Accounts : reserved_total[a] < batch_no * txs_per_account

C9_SleepsOnlyTheRemainder ==
    (load_pc \in {"rate_sleep", "batch_sleep"} /\ batch_started_at # None) =>
        load_wake = batch_started_at + batch_interval

RunAccounts == 1

(* run_full_test on a freshly constructed object *)
InitRun ==
    /\ variant \in LoadVariants
    /\ transactions_per_batch = TxPerBatch
    /\ generate_load = FALSE
    /\ read_load = "none"
    /\ load_requests = 0
    /\ now = 0
    /\ chain = <<1>>
    /\ InitMonitorIdle
    /\ mon_pc = "idle"
    /\ load_pc = "idle"
    /\ num_accounts \in 0..RunAccounts
    /\ tx_count \in SeedChoices(num_accounts)
    /\ load_duration = 0
    /\ load_start_time = 0
    /\ last_batch_time = 0
    /\ load_wake = 0
    /\ nonce_counters = << >>
    /\ tasks = [a \in 1..num_accounts |-> NoTask]
    /\ sent = 0
    /\ failed = 0
    /\ load_error = "none"
    /\ batch_no = 0
    /\ batch_started_at = None
    /\ submitted = 0
    /\ handed = [a \in 1..num_accounts |-> {}]
    /\ handed_twice = FALSE
    /\ reserved_total = [a \in 1..num_accounts |-> 0]
    /\ all_accepted = TRUE
    /\ accepted_total = 0
    /\ transport_error_seen = FALSE
    /\ post_log = [a \in 1..num_accounts |-> << >>]
    /\ run_pc = "idle"
    /\ stress_duration = StressDuration
    /\ monitor_duration = MonitorDuration
    /\ verdict = "none"
    /\ verdicts = 0
    /\ baseline_report = NoStats
    /\ stats_report = NoStats
    /\ loaded_started = FALSE

NextRun ==
    \/ Tick
    \/ NewBlock
    \/ MonStart
    \/ MonInitialRead
    \/ MonLoop
    \/ MonPollMeasured
    \/ MonPollOrig
    \/ MonFetchBlock
    \/ MonFinish
    \/ LoadNext
    \/ RunNext

SpecRun == InitRun /\ [][NextRun]_vars

----------------------------------------------------------------------------
(* Properties of the monitors, checked under SpecMonitor *)

MonitorPolling == mon_pc \in {"loop", "sleep", "fetch_block", "finish", "done"}

(* C2: in monitor_blocks of fixed and tps20k, a poll that sees the height    *)
(* advanced by D >= 1 blocks, T ms after the previous detection (or after    *)
(* the initial height read), appends exactly D samples, each equal to T / D, *)
(* to self.block_times and to block_time_measurements.                       *)
C2_DetectionAppendsDSamples ==
    [][ (variant \in Measured /\ mon_pc = "sleep" /\ last_block' > last_block) =>
        LET D == last_block' - last_block
            T == (now - last_block_time) * MsPerTick
            AppendsD(old, new) ==
                /\ Len(new) = Len(old) + D
                /\ SubSeq(new, 1, Len(old)) = old
                /\ \A i \in (Len(old) + 1)..Len(new) :
                      /\ new[i].den # 0
                      /\ new[i].num * D = T * new[i].den
        IN  /\ AppendsD(block_times, block_times')
            /\ AppendsD(block_time_measurements, block_time_measurements') ]_vars

(* a detection of D = 3 blocks after T > 0 ms has been recorded *)
C2_Witness ==
    /\ variant \in Measured
    /\ last_block = start_block + 3
    /\ Len(block_time_measurements) = 3
    /\ \A i \in 1..3 : /\ block_time_measurements[i].den = 3
                       /\ block_time_measurements[i].num > 0

(* C3: in every monitor, the number of samples recorded in a phase equals    *)
(* the height advance observed since the height read at monitor start.       *)
C3_SamplesEqualHeightAdvance ==
    MonitorPolling => Len(block_times) = last_block - start_block

(* C4: every sample recorded by a monitor is computed from the monitor's own *)
(* monotonic-clock readings, never from a block timestamp or a constant.     *)
C4_SamplesFromMonotonicClock ==
    \A i \in 1..Len(block_times) : block_times[i].src = "perf_counter"

----------------------------------------------------------------------------
(* Phase 3 of run_full_test on its own: the analysis applied to the block   *)
(* times and to the counters a loaded phase may leave                       *)

(* block times around the two thresholds: T ms over D blocks is T / D each  *)
VerdictBlockTimes(v) ==
    IF v = "orig"
    THEN { <<Sample(85, 1, "constant")>>,
           <<Sample(1000, 1, "timestamp")>>,
           <<Sample(85, 1, "constant"), Sample(1000, 1, "timestamp")>> }
    ELSE { <<Sample(80, 1, "perf_counter")>>,
           Repeat(Sample(170, 2, "perf_counter"), 2),
           Repeat(Sample(430, 5, "perf_counter"), 5),
           <<Sample(90, 1, "perf_counter")>>,
           <<Sample(80, 1, "perf_counter"), Sample(90, 1, "perf_counter")>>,
           <<Sample(100, 1, "perf_counter")>>,
           <<Sample(90, 1, "perf_counter"), Sample(110, 1, "perf_counter")>>,
           Repeat(Sample(210, 2, "perf_counter"), 2) }

(* counts of accepted submissions around the two throughput thresholds *)
VerdictSent == {0, 149, 150, 160, 179, 180, 181, 299, 300, 320, 359, 360, 361}

InitVerdict ==
    /\ variant \in LoadVariants
    /\ transactions_per_batch = TxPerBatch
    /\ generate_load = FALSE
    /\ read_load = "none"
    /\ load_requests = 0
    /\ now = MaxTime
    /\ chain = <<1>>
    /\ mon_pc = "done"
    /\ mon_duration = MonitorDuration
    /\ mon_start_time = 0
    /\ start_real_time = 0
    /\ start_block = 1
    /\ last_block = 1
    /\ last_block_time = 0
    /\ last_timestamp = None
    /\ current_block = 1
    /\ blocks_produced = 0
    /\ block_times \in VerdictBlockTimes(variant)
    /\ block_time_measurements = << >>
    /\ mon_wake = 0
    /\ mon_report = "none"
    /\ last_poll = "none"
    /\ load_pc = "done"
    /\ num_accounts = 0
    /\ tx_count = << >>
    /\ load_duration \in {1, 2}
    /\ load_start_time = 0
    /\ last_batch_time = 0
    /\ load_wake = 0
    /\ nonce_counters = << >>
    /\ tasks = << >>
    /\ sent \in VerdictSent
    /\ failed = 0
    /\ load_error = "none"
    /\ batch_no = 0
    /\ batch_started_at = None
    /\ submitted = sent
    /\ handed = << >>
    /\ handed_twice = FALSE
    /\ reserved_total = << >>
    /\ all_accepted = TRUE
    /\ accepted_total = 0
    /\ transport_error_seen = FALSE
    /\ post_log = [a \in 1..num_accounts |-> << >>]
    /\ run_pc = "analysis"
    /\ stress_duration = load_duration
    /\ monitor_duration = MonitorDuration
    /\ verdict = "none"
    /\ verdicts = 0
    /\ baseline_report = NoStats
    /\ stats_report = NoStats
    /\ loaded_started = TRUE

NextVerdict == RunAnalyze

SpecVerdict == InitVerdict /\ [][NextVerdict]_vars

----------------------------------------------------------------------------
(* Properties of run_full_test, checked under SpecRun and SpecVerdict *)

(* C6: every run_full_test that starts its loaded phase ends having printed  *)
(* exactly one verdict, also when the loaded phase recorded no sample or a   *)
(* transaction could not be signed.                                          *)
C6_ExactlyOneVerdict ==
    (loaded_started /\ run_pc \in {"done", "raised"}) => verdicts = 1

(* C7: in tps20k the verdict is the top tier iff mean <= 85 and tps >= 18000, *)
(* otherwise the middle tier iff mean <= 100 and tps >= 15000, otherwise the  *)
(* failing tier; a mean of 90 ms with 16000 tps is the middle tier.           *)
C7_Verdict20kTiers ==
    (variant = "tps20k" /\ run_pc = "done" /\ block_times # << >>) =>
        LET m == Mean(block_times)
            tps_num == sent * TicksPerSecond
            tps_den == stress_duration
            top == m.num <= 85 * m.den /\ tps_num >= 18000 * tps_den
            middle == ~top /\ m.num <= 100 * m.den /\ tps_num >= 15000 * tps_den
        IN  /\ verdicts = 1
            /\ verdict \in {"top", "middle", "failing"}
            /\ verdict = "top" <=> top
            /\ verdict = "middle" <=> middle
            /\ (m.num = 90 * m.den /\ tps_num = 16000 * tps_den) => verdict = "middle"

(* the analysis of a mean of 90 ms at 16000 tps has printed the middle tier *)
C7_Witness ==
    /\ variant = "tps20k"
    /\ run_pc = "done"
    /\ block_times = <<Sample(90, 1, "perf_counter")>>
    /\ sent * TicksPerSecond = 16000 * stress_duration
    /\ verdict = "middle"

----------------------------------------------------------------------------
(* Properties of the deadlines, checked under SpecRun *)

(* a step that sends a poll of the height *)
PollStep == mon_pc = "sleep" /\ mon_pc' # "sleep"
(* a step that dispatches a batch *)
DispatchStep == batch_no' > batch_no

(* C11: once the deadline of a phase has passed (elapsed >= duration) the    *)
(* load generator dispatches no new batch and the monitor sends no new poll. *)
C11_NoNewWorkAfterDeadline ==
    [][ /\ DispatchStep => now - load_start_time' < load_duration
        /\ PollStep => now - mon_start_time < mon_duration ]_vars

(* C12: when run_full_test reads the counters and the samples of the loaded  *)
(* phase, the load task and the monitor task have finished and every         *)
(* submission posted has been counted: nothing can change what it reads.     *)
C12_AnalysisReadsAfterDrain ==
    run_pc \in {"analysis", "done"} =>
        /\ mon_pc = "done"
        /\ load_pc = "done"
        /\ \A a \in Accounts : tasks[a].st \in {"none", "done"}
        /\ sent + failed = submitted

(* the analysis is about to read a loaded phase with samples and with both   *)
(* accepted and failed submissions                                           *)
C12_Witness ==
    /\ run_pc = "analysis"
    /\ batch_no >= 1
    /\ sent >= 1
    /\ failed >= 1
    /\ block_times # << >>

(* C13: run_full_test goes through Idle, Baseline, Loaded, Analyzed, Done in *)
(* this order, none skipped or repeated (a run that ends early, by the       *)
(* failed connection check or by an exception, enters no later phase); the   *)
(* load generator is not active during Baseline, Analyzed is entered only    *)
(* when Loaded has completed, and nothing happens after Done.                *)
C13_PhasesInOrder ==
    [][ /\ run_pc' # run_pc =>
              <<run_pc, run_pc'>> \in { <<"idle", "baseline">>,
                                        <<"baseline", "loaded">>,
                                        <<"loaded", "analysis">>,
                                        <<"analysis", "done">>,
                                        <<"idle", "returned">>,
                                        <<"baseline", "raised">>,
                                        <<"loaded", "raised">> }
        /\ run_pc \in {"idle", "baseline"} =>
              /\ load_pc = "idle"
              /\ batch_no = 0
              /\ \A a \in Accounts : tasks[a].st = "none"
        /\ run_pc' = "analysis" => mon_pc = "done" /\ load_pc = "done"
        /\ run_pc \notin {"done", "returned", "raised"} ]_vars

(* a run that went through every phase and printed its verdict *)
C13_Witness ==
    /\ run_pc = "done"
    /\ loaded_started
    /\ verdicts = 1
    /\ sent >= 1

----------------------------------------------------------------------------
(* Errors of the load generators, checked under SpecLoad *)

(* every send task of the batches so far has returned or raised *)
TasksResolved == \A a \in Accounts : ~TaskRunning(tasks[a])

(* C14: a transport error on a submission is counted as one failed           *)
(* submission and has no other effect: it never ends the load phase, the     *)
(* other submissions are still counted (once the tasks have returned, sent   *)
(* is the number of accepted submissions and failed the number of all the    *)
(* others), and a phase that ended without an exception ran to its deadline. *)
C14_TransportErrorCountsOneFailed ==
    /\ load_error # "TransportError"
    /\ \A a \in Accounts : tasks[a].st = "raised" => tasks[a].resp = << >>
    /\ TasksResolved => /\ sent = accepted_total
                        /\ failed = submitted - accepted_total
    /\ load_pc = "done" => now - load_start_time >= load_duration

(* a phase of two batches or more ran to its deadline with one submission    *)
(* lost to a transport error and every other submission counted as sent      *)
C14_Witness ==
    /\ LoadFinished
    /\ load_error = "none"
    /\ now - load_start_time >= load_duration
    /\ transport_error_seen
    /\ batch_no >= 2
    /\ failed = 1
    /\ sent = submitted - 1
    /\ sent >= 2


(* C15: the counter of a sender is advanced by the per-sender count when its *)
(* task is created, before the task signs anything; when the signing fails   *)
(* the counter stays advanced by the full count, and no nonce of the range   *)
(* is given to another task of the load phase.                               *)
C15_SigningFailureConsumesRange ==
    /\ \A a \in Accounts :
          tasks[a].st \in {"new", "raised"} =>
              /\ nonce_counters[a] = tasks[a].nonce_start + tasks[a].count
              /\ \A n \in tasks[a].nonce_start..(tasks[a].nonce_start + tasks[a].count - 1) :
                    n \in handed[a]
    /\ ~handed_twice

(* the signing failed in a task of the second batch or a later one *)
C15_Witness ==
    /\ batch_no >= 2
    /\ load_error = "SigningError"
    /\ \E a \in Accounts : /\ tasks[a].st = "raised"
                           /\ tasks[a].count >= 1
                           /\ nonce_counters[a] = tasks[a].nonce_start + tasks[a].count


(* C16: a load phase started on a pool of zero accounts fails with the       *)
(* configuration error InsufficientAccounts before a batch is scheduled: it  *)
(* dispatches no batch, ends by no other exception and does not run on to    *)
(* its deadline.                                                             *)
C16_ZeroAccountsIsConfigurationError ==
    num_accounts = 0 =>
        /\ batch_no = 0
        /\ submitted = 0
        /\ \/ load_pc = "start"
           \/ load_pc = "raised" /\ load_error = "InsufficientAccounts"


(* C17: in every variant the nonce counter of each account is seeded from    *)
(* the transaction count of the account on the chain before the first batch: *)
(* the first nonce given to a task of the account is that count, and no      *)
(* nonce below it is ever given out.                                         *)
C17_FirstNonceIsChainCount ==
    \A a \in Accounts :
        handed[a] # {} => /\ tx_count[a] \in handed[a]
                          /\ \A n \in handed[a] : n >= tx_count[a]


----------------------------------------------------------------------------
(* Errors of the monitors, checked under SpecMonitor *)

(* the monitor is in its polling loop: at the test, asleep, or in a read *)
InPollingLoop == mon_pc \in {"loop", "sleep", "fetch_block"}

(* a poll of the running monitor (the height read, or the block read that    *)
(* follows it in orig) ends by an error                                      *)
PollErrorStep ==
    /\ mon_pc \in {"sleep", "fetch_block"}
    /\ mon_pc' # mon_pc
    /\ last_poll' = "error"

(* C18: an error of a poll leaves the last height, the last detection time   *)
(* (the last timestamp in orig and simple), the samples and the block count  *)
(* as they were and takes the monitor back to the test of its loop, which    *)
(* sleeps and polls again for as long as the deadline has not passed; the    *)
(* monitor leaves its loop only by that test.                                *)
C18_PollErrorLeavesMonitorState ==
    [][ /\ PollErrorStep =>
              /\ mon_pc' = "loop"
              /\ UNCHANGED <<last_block, last_block_time, last_timestamp, block_times,
                             block_time_measurements, blocks_produced, start_block>>
        /\ (InPollingLoop /\ ~InPollingLoop') =>
              /\ mon_pc = "loop"
              /\ mon_pc' = "finish"
              /\ now - mon_start_time >= mon_duration ]_vars

(* after a detection a poll failed, and the monitor sleeps before its next   *)
(* poll with its samples kept, the deadline not reached                      *)
C18_Witness ==
    /\ last_poll = "error"
    /\ mon_pc = "sleep"
    /\ block_times # << >>
    /\ blocks_produced >= 1
    /\ now - mon_start_time < mon_duration


(* C19: a monitor whose initial height read fails ends there: it never       *)
(* enters its polling loop (it has sent no poll), it has recorded no sample  *)
(* and counted no block, and it prints no statistics (orig, fixed and tps20k *)
(* end by the exception, simple prints an error and returns). A monitor that *)
(* is in its loop or past it has read its initial height, and a poll error   *)
(* never ends a monitor.                                                     *)
C19_FailedInitialReadAborts ==
    /\ mon_pc \in {"raised", "returned"} =>
          /\ start_block = 0
          /\ last_poll = "none"
          /\ block_times = << >>
          /\ block_time_measurements = << >>
          /\ blocks_produced = 0
          /\ mon_report = IF variant = "simple" THEN "error" ELSE "none"
    /\ MonitorPolling => start_block >= 1
    /\ last_poll = "error" => MonitorPolling

(* the initial read failed while the chain had a height to report *)
C19_Witness ==
    /\ mon_pc \in {"raised", "returned"}
    /\ start_block = 0
    /\ Height >= 1
    /\ mon_report \in {"none", "error"}


----------------------------------------------------------------------------
(* run_full_test invoked again on the object of an earlier invocation *)

(* what an invocation that ran to its end leaves in self.block_times and in  *)
(* self.tx_results: in fixed and tps20k a sample and the counts of its       *)
(* loaded phase, in orig (whose monitor saw one new block at most) nothing;  *)
(* no statement of run_full_test or of its callees resets them when the next *)
(* invocation starts                                                         *)
RerunLeftovers(v) ==
    IF v \in Measured
    THEN { [block_times |-> <<Sample(40, 1, "perf_counter")>>, sent |-> 1, failed |-> 1] }
    ELSE { [block_times |-> << >>, sent |-> 0, failed |-> 0] }

(* the state at the start of the second invocation: the fields of the object *)
(* are as the first invocation left them, every local is new; the clock and  *)
(* the height are counted from this start                                    *)
InitRerun ==
    /\ variant \in LoadVariants
    /\ transactions_per_batch = TxPerBatch
    /\ generate_load = FALSE
    /\ read_load = "none"
    /\ load_requests = 0
    /\ now = 0
    /\ chain = <<1>>
    /\ mon_pc = "idle"
    /\ mon_duration = MonDuration
    /\ mon_start_time = 0
    /\ start_real_time = 0
    /\ start_block = 0
    /\ last_block = 0
    /\ last_block_time = 0
    /\ last_timestamp = None
    /\ current_block = 0
    /\ blocks_produced = 0
    /\ block_time_measurements = << >>
    /\ mon_wake = 0
    /\ mon_report = "none"
    /\ last_poll = "none"
    /\ load_pc = "idle"
    /\ num_accounts \in 0..RunAccounts
    /\ tx_count \in SeedChoices(num_accounts)
    /\ load_duration = 0
    /\ load_start_time = 0
    /\ last_batch_time = 0
    /\ load_wake = 0
    /\ nonce_counters = << >>
    /\ tasks = [a \in 1..num_accounts |-> NoTask]
    /\ \E left \in RerunLeftovers(variant) :
          /\ block_times = left.block_times
          /\ sent = left.sent
          /\ failed = left.failed
          /\ submitted = left.sent + left.failed
          /\ accepted_total = left.sent
          /\ all_accepted = (left.failed = 0)
    /\ load_error = "none"
    /\ batch_no = 0
    /\ batch_started_at = None
    /\ handed = [a \in 1..num_accounts |-> {}]
    /\ handed_twice = FALSE
    /\ reserved_total = [a \in 1..num_accounts |-> 0]
    /\ transport_error_seen = FALSE
    /\ post_log = [a \in 1..num_accounts |-> << >>]
    /\ run_pc = "idle"
    /\ stress_duration = StressDuration
    /\ monitor_duration = MonitorDuration
    /\ verdict = "none"
    /\ verdicts = 0
    /\ baseline_report = NoStats
    /\ stats_report = NoStats
    /\ loaded_started = FALSE

SpecRerun == InitRerun /\ [][NextRun]_vars

(* C20: whatever ran before on the same object, the statistics printed for   *)
(* a phase are those of the samples that the monitor of that phase emitted:  *)
(* the baseline results are the statistics of the baseline monitor's own     *)
(* samples (orig keeps no list of its own: there the count of the samples    *)
(* stays below the count of the blocks the monitor saw), and the analysis    *)
(* reads a self.block_times that holds the loaded monitor's samples only.    *)
C20_StatsFromPhaseSamplesOnly ==
    [][ /\ (run_pc = "baseline" /\ run_pc' = "loaded") =>
              /\ variant \in Measured =>
                    baseline_report' = BaselineStats(block_time_measurements)
              /\ variant = "orig" =>
                    (baseline_report'.kind = "stats" =>
                         baseline_report'.n < blocks_produced)
        /\ (run_pc = "analysis" /\ run_pc' = "done") =>
              /\ variant \in Measured => block_times = block_time_measurements
              /\ variant = "orig" => Len(block_times) <= blocks_produced ]_vars


----------------------------------------------------------------------------
(* The statistics printed at the end of a phase, on sample lists of chosen   *)
(* lengths: simple prints them when its monitor ends, orig, fixed and tps20k *)
(* in Phase 3 of run_full_test                                               *)

(* Bound: the longest sample list; the lengths lie on both sides of the      *)
(* tests len > 1, len >= 10, len > 20 and len > 100 of the code              *)
MaxStatsLen == 102
StatsLengths == {1, 2, 3, 9, 10, 11, 19, 20, 21, 22, 40, 100, 101, MaxStatsLen}
StatsVariants == LoadVariants \cup {"simple"}

(* sample lists in ascending, descending and mixed order and a constant      *)
(* one, in ms, around the thresholds 85, 100 and 150                         *)
StatsSamples(v, n) ==
    LET src == IF v \in Measured THEN "perf_counter" ELSE "timestamp"
    IN  { [i \in 1..n |-> Sample(60 + i, 1, src)],
          [i \in 1..n |-> Sample(60 + (n + 1 - i), 1, src)],
          [i \in 1..n |-> Sample(60 + ((i * 7) % n), 1, src)],
          [i \in 1..n |-> Sample(85, 1, src)] }

InitStats ==
    /\ variant \in StatsVariants
    /\ transactions_per_batch = TxPerBatch
    /\ generate_load = FALSE
    /\ read_load = "none"
    /\ load_requests = 0
    /\ now = MaxTime
    /\ chain = <<1>>
    /\ mon_pc = IF variant = "simple" THEN "finish" ELSE "done"
    /\ mon_duration = MonitorDuration
    /\ mon_start_time = 0
    /\ start_real_time = 0
    /\ start_block = 1
    /\ last_block = 1
    /\ last_block_time = 0
    /\ last_timestamp = None
    /\ current_block = 1
    /\ \E n \in StatsLengths : block_times \in StatsSamples(variant, n)
    /\ blocks_produced = Len(block_times)
    /\ block_time_measurements = IF variant \in Measured THEN block_times ELSE << >>
    /\ mon_wake = 0
    /\ mon_report = "none"
    /\ last_poll = "none"
    /\ load_pc = IF variant = "simple" THEN "idle" ELSE "done"
    /\ num_accounts = 0
    /\ tx_count = << >>
    /\ load_duration = StressDuration
    /\ load_start_time = 0
    /\ last_batch_time = 0
    /\ load_wake = 0
    /\ nonce_counters = << >>
    /\ tasks = << >>
    /\ sent = 0
    /\ failed = 0
    /\ load_error = "none"
    /\ batch_no = 0
    /\ batch_started_at = None
    /\ submitted = 0
    /\ handed = << >>
    /\ handed_twice = FALSE
    /\ reserved_total = << >>
    /\ all_accepted = TRUE
    /\ accepted_total = 0
    /\ transport_error_seen = FALSE
    /\ post_log = [a \in 1..num_accounts |-> << >>]
    /\ run_pc = IF variant = "simple" THEN "standalone" ELSE "analysis"
    /\ stress_duration = StressDuration
    /\ monitor_duration = MonitorDuration
    /\ verdict = "none"
    /\ verdicts = 0
    /\ baseline_report = NoStats
    /\ stats_report = NoStats
    /\ loaded_started = (variant # "simple")

NextStats ==
    \/ MonFinish
    \/ RunAnalyze

SpecStats == InitStats /\ [][NextStats]_vars


(* Properties of the statistics, checked under SpecStats *)

IsValue(x) == x.kind = "value"

(* the statistics of the phase have been printed *)
StatsPrinted == stats_report.kind = "stats"

C22_StdAbsentBelowTwoSamples ==
    (StatsPrinted /\ stats_report.n < 2) =>
        /\ stats_report.std = Absent
        /\ ~Raises(stats_report.avg)


(* the element of the ascending copy at index floor(p * N / 100), clamped to *)
(* [0, N - 1] (the indices of the code start at 0, those of Sorted at 1)     *)
NearestRank(times, p) ==
    LET n == Len(times)
        k == (p * n) \div 100
        idx == IF k > n - 1 THEN n - 1 ELSE k
    IN  ValueOf(Sorted(times)[idx + 1])

(* C23: for every sample list of length N >= 1, every percentile that the    *)
(* statistics report (the 50th, 90th, 95th, 99th) is the element at index    *)
(* floor(p * N / 100), clamped to [0, N - 1], of the ascending copy: no      *)
(* interpolation, no other element.                                          *)
C23_PercentileIsNearestRank ==
    StatsPrinted =>
        /\ IsValue(stats_report.p50) =>
              stats_report.p50.val = NearestRank(block_times, 50)
        /\ IsValue(stats_report.p90) =>
              stats_report.p90.val = NearestRank(block_times, 90)
        /\ IsValue(stats_report.p95) =>
              RatEq(stats_report.p95.val, NearestRank(block_times, 95))
        /\ IsValue(stats_report.p99) =>
              stats_report.p99.val = NearestRank(block_times, 99)


----------------------------------------------------------------------------
(* Counting and nonces of the load generators, checked under SpecLoad *)

(* the submissions of task t with an outcome in kinds that the loop over the *)
(* responses has not reached yet                                             *)
UncountedIn(t, kinds) ==
    CASE t.st = "posted" ->
            Cardinality({i \in 1..t.count : t.resp[i] \in kinds})
      [] t.st = "counting" ->
            Cardinality({i \in t.idx..t.count : t.resp[i] \in kinds})
      [] OTHER -> 0
RECURSIVE UncountedUpTo(_, _)
UncountedUpTo(a, kinds) ==
    IF a = 0 THEN 0 ELSE UncountedIn(tasks[a], kinds) + UncountedUpTo(a - 1, kinds)
Uncounted(kinds) == UncountedUpTo(num_accounts, kinds)

(* C24: every submission is counted exactly once, in sent iff its response   *)
(* could be parsed and carried a result, in failed in every other case: at   *)
(* every moment sent is the number of accepted submissions that the loops    *)
(* over the responses have reached, failed the number of all the others     *)
(* they have reached.                                                        *)
C24_EachSubmissionCountedOnce ==
    /\ sent + Uncounted({"accepted"}) = accepted_total
    /\ sent + failed + Uncounted(Outcomes \cup {"inflight"}) = submitted
    /\ failed + Uncounted({"rejected", "badjson", "exception"})
          + Uncounted({"inflight"}) = submitted - accepted_total

(* a task has counted an accepted submission and is at a rejected one, after *)
(* an earlier task counted a transport error                                 *)
C24_Witness ==
    /\ sent >= 1
    /\ failed >= 1
    /\ transport_error_seen
    /\ \E a \in Accounts : /\ tasks[a].st = "counting"
                           /\ tasks[a].idx = 2
                           /\ tasks[a].resp[1] = "accepted"
                           /\ tasks[a].resp[2] \in {"rejected", "badjson"}


(* C25: no outcome of a submission changes a nonce counter: a counter        *)
(* changes only in the step that dispatches a batch, and once the counters   *)
(* are seeded the counter of an account is its seed plus the per-sender      *)
(* count times the number of batches the account was selected in, whatever   *)
(* became of its submissions.                                                *)
C25_OutcomesLeaveNonceCounters ==
    [][ /\ (load_pc # "start" /\ batch_no' = batch_no) =>
               nonce_counters' = nonce_counters
        /\ load_pc' \notin {"idle", "start"} =>
               \A a \in Accounts :
                   /\ nonce_counters'[a] = Seed(a) + reserved_total'[a]
                   /\ \E k \in 0..batch_no' :
                         reserved_total'[a] = k * txs_per_account ]_vars

(* an account was selected in two batches, a submission of it was rejected   *)
(* and counted, and its counter is its seed plus twice the per-sender count  *)
C25_Witness ==
    /\ batch_no >= 2
    /\ ~all_accepted
    /\ failed >= 1
    /\ load_pc \in {"gather", "batch_sleep", "rate_sleep", "done"}
    /\ \E a \in Accounts :
          /\ txs_per_account >= 1
          /\ reserved_total[a] = 2 * txs_per_account
          /\ nonce_counters[a] = Seed(a) + 2 * txs_per_account
          /\ tx_count[a] >= 1


(* the accounts whose task the dispatch has just created *)
Selected(t) == {a \in DOMAIN t : t[a].st = "new"}

(* C26: the senders of a batch are K pairwise distinct accounts of the pool, *)
(* K <= the number of accounts: a dispatch creates exactly                   *)
(* min(sender cap, pool size) tasks for as many accounts, each task starts   *)
(* at a nonce that was not handed out before, and the counter of its account *)
(* is past the range of the task when the dispatch ends.                     *)
C26_SendersOfABatchDistinct ==
    [][ batch_no' > batch_no =>
          /\ Cardinality(Selected(tasks')) = concurrent_senders
          /\ concurrent_senders <= num_accounts
          /\ \A a \in Selected(tasks') :
                /\ tasks'[a].nonce_start \notin handed[a]
                /\ nonce_counters'[a] = tasks'[a].nonce_start + tasks'[a].count
          /\ \A a \in Accounts \ Selected(tasks') :
                handed'[a] = handed[a] ]_vars

(* a later batch for two senders out of a pool of three *)
C26_Witness ==
    /\ batch_no >= 2
    /\ num_accounts = 3
    /\ Cardinality(Selected(tasks)) = 2
    /\ concurrent_senders = 2


(* C27: the transactions of an account are handed to the session in strictly *)
(* increasing nonce order, within a batch and from batch to batch: in the    *)
(* order of the account's session.post calls every nonce is above the one    *)
(* before it, and a task that has not started yet holds only nonces above    *)
(* every nonce the account has handed over.                                  *)
C27_PostsInNonceOrder ==
    /\ \A a \in Accounts :
          \A i \in 1..(Len(post_log[a]) - 1) : post_log[a][i] < post_log[a][i + 1]
    /\ \A a \in Accounts :
          tasks[a].st = "new" =>
              \A i \in 1..Len(post_log[a]) : post_log[a][i] < tasks[a].nonce_start

(* an account handed over two batches of two transactions each *)
C27_Witness ==
    \E a \in Accounts :
        /\ Len(post_log[a]) >= 4
        /\ tx_count[a] >= 1
        /\ post_log[a][3] = post_log[a][2] + 1


(* C28: while the loaded phase runs, the monitor and the load generator      *)
(* write disjoint state under every interleaving: a step that changes the    *)
(* monitor's state leaves sent, failed and every nonce counter as they were, *)
(* and a step that changes the load generator's state leaves the sample      *)
(* sequence, the last observed height and the last detection time as they    *)
(* were.                                                                     *)
C28_MonitorAndLoadWriteDisjointState ==
    [][(run_pc = "loaded" /\ run_pc' = "loaded") =>
          /\ (monVars' # monVars) =>
                 /\ sent' = sent
                 /\ failed' = failed
                 /\ nonce_counters' = nonce_counters
          /\ (loadVars' # loadVars \/ histVars' # histVars) =>
                 /\ block_times' = block_times
                 /\ last_block' = last_block
                 /\ last_block_time' = last_block_time
                 /\ last_timestamp' = last_timestamp]_vars

(* in the loaded phase the monitor has measured a block, one of its polls    *)
(* has just failed, and the load generator, still sending, has counted       *)
(* submissions and advanced a nonce counter                                  *)
C28_Witness ==
    /\ run_pc = "loaded"
    /\ InPollingLoop
    /\ block_times # << >>
    /\ last_poll = "error"
    /\ LoadRunning
    /\ sent + failed >= 1
    /\ \E a \in Accounts : tx_count[a] >= 1


(* C29: computing the statistics leaves the sample sequence as it was, in    *)
(* content and in order, and the statistics computed again over the sequence *)
(* that is left are the statistics that were reported.                       *)
C29_StatsLeaveSamplesAndRepeat ==
    [][(stats_report'.kind = "stats" /\ stats_report.kind # "stats") =>
          /\ block_times' = block_times
          /\ stats_report' = IF variant = "simple"
                             THEN SimpleStats(block_times')
                             ELSE AnalysisStats(block_times')]_vars

(* the statistics of run_full_test were computed over more than 20 samples   *)
(* that are not in ascending order, percentile included                      *)
C29_Witness ==
    /\ StatsPrinted
    /\ variant = "tps20k"
    /\ Len(block_times) > 20
    /\ block_times # Sorted(block_times)
    /\ IsValue(stats_report.p95)


(* C30: in every variant of run_full_test the top tier is printed only when  *)
(* the achieved throughput is at least the target throughput, the middle     *)
(* tier only when it is at least the minimum throughput, and a mean within   *)
(* the target with a throughput below the minimum is the failing tier. The   *)
(* thresholds of tps20k are TargetTps and MinTps; stress_test_blocktime.py   *)
(* and stress_test_blocktime_fixed.py name no threshold, and a throughput of *)
(* zero is below every threshold there can be.                               *)
C30_TiersNeedThroughput ==
    (run_pc = "done" /\ block_times # << >>) =>
        LET m == Mean(block_times)
            tps == ActualTps(sent, stress_duration)
            at_target == IF variant = "tps20k" THEN RatGeq(tps, RatOf(TargetTps))
                         ELSE sent > 0
            at_minimum == IF variant = "tps20k" THEN RatGeq(tps, RatOf(MinTps))
                          ELSE sent > 0
        IN  /\ verdict = "top" => at_target
            /\ verdict = "middle" => at_minimum
            /\ (RatLeq(m, RatOf(TargetBlockMs)) /\ ~at_minimum) => verdict = "failing"


----------------------------------------------------------------------------
(* Termination of the monitor.  Time passes, and a poll that was sent comes *)
(* back with a result or with an error: the clock and the steps of the      *)
(* monitor are weakly fair.                                                 *)
LiveMonDuration == 2

(* the monitor is called when the clock reads LiveStart and the chain is one *)
(* block below the highest height of the model                               *)
LiveStart == 2

InitMonitorLive ==
    /\ variant \in Variants
    /\ transactions_per_batch = TxPerBatch
    /\ generate_load = FALSE
    /\ read_load = "none"
    /\ load_requests = 0
    /\ now = LiveStart
    /\ chain = Repeat(1, MaxHeight - 1)
    /\ mon_duration = LiveMonDuration
    /\ mon_start_time = 0
    /\ start_real_time = 0
    /\ start_block = 0
    /\ last_block = 0
    /\ last_block_time = 0
    /\ last_timestamp = None
    /\ current_block = 0
    /\ blocks_produced = 0
    /\ block_times = << >>
    /\ block_time_measurements = << >>
    /\ mon_wake = 0
    /\ mon_report = "none"
    /\ last_poll = "none"
    /\ InitLoadIdle
    /\ InitRunIdle
    /\ mon_pc = "start"

SpecMonitorLive ==
    /\ InitMonitorLive
    /\ [][NextMonitor]_vars
    /\ WF_vars(Tick)
    /\ WF_vars(MonitorNext)

(* the deadline and the sleep that may run over it lie within the modelled  *)
(* time                                                                     *)
DeadlineWithinHorizon == mon_start_time + mon_duration + PollSleep(variant) <= MaxTime

(* C31: once its initial read has succeeded, a monitor whose polls all come *)
(* back (with a height or with an error) returns, whatever heights and      *)
(* errors the polls bring: a height that never advances and a poll that     *)
(* fails every time included.                                               *)
C31_MonitorReturns ==
    (InPollingLoop /\ DeadlineWithinHorizon) ~> (mon_pc = "done")

(* a monitor returned after a phase in which the height never advanced and  *)
(* the last poll failed                                                     *)
C31_Witness ==
    /\ mon_pc = "done"
    /\ DeadlineWithinHorizon
    /\ now - mon_start_time >= mon_duration
    /\ blocks_produced = 0
    /\ block_times = << >>
    /\ last_poll = "error"


----------------------------------------------------------------------------
(* The load phase of tps20k for batch sizes that the number of senders does *)
(* and does not divide                                                      *)
MaxBatchSize == 3

InitBatch ==
    /\ variant = "tps20k"
    /\ transactions_per_batch \in 1..MaxBatchSize
    /\ generate_load = FALSE
    /\ read_load = "none"
    /\ load_requests = 0
    /\ now = 0
    /\ chain = <<1>>
    /\ InitMonitorIdle
    /\ mon_pc = "idle"
    /\ load_pc = "start"
    /\ num_accounts \in 1..MaxAccounts
    /\ tx_count \in SeedChoices(num_accounts)
    /\ load_duration = LoadDuration
    /\ load_start_time = 0
    /\ last_batch_time = 0
    /\ load_wake = 0
    /\ nonce_counters = << >>
    /\ tasks = [a \in 1..num_accounts |-> NoTask]
    /\ sent = 0
    /\ failed = 0
    /\ load_error = "none"
    /\ batch_no = 0
    /\ batch_started_at = None
    /\ submitted = 0
    /\ handed = [a \in 1..num_accounts |-> {}]
    /\ handed_twice = FALSE
    /\ reserved_total = [a \in 1..num_accounts |-> 0]
    /\ all_accepted = TRUE
    /\ accepted_total = 0
    /\ transport_error_seen = FALSE
    /\ post_log = [a \in 1..num_accounts |-> << >>]
    /\ InitRunIdle

NextBatch ==
    \/ Tick
    \/ LoadRateSleepOver
    \/ LoadStart
    \/ LoadGatherDone
    \/ TaskNext

SpecBatch == InitBatch /\ [][NextBatch]_vars

(* C32: with K = min(sender cap, number of accounts) >= 1 and batch size B,  *)
(* a dispatch of stress_test_transactions_optimized advances the counter of  *)
(* each of the K selected senders by exactly B div K and of no other         *)
(* account, and hands K * (B div K) transactions to the send tasks, which is *)
(* at most B and less than B whenever K does not divide B; a task that posts *)
(* posts its whole share.                                                    *)
C32_BatchSharesFloorOfBatch ==
    [][ /\ batch_no' > batch_no =>
             LET K == concurrent_senders
                 B == transactions_per_batch
             IN  /\ K >= 1
                 /\ Cardinality(Selected(tasks')) = K
                 /\ \A a \in Selected(tasks') :
                       /\ nonce_counters'[a] = tasks'[a].nonce_start + (B \div K)
                       /\ tasks'[a].count = B \div K
                 /\ \A a \in Accounts \ Selected(tasks') :
                       reserved_total'[a] = reserved_total[a]
                 /\ K * (B \div K) <= B
                 /\ (B % K # 0) => K * (B \div K) < B
        /\ submitted' # submitted =>
             \E a \in Accounts :
                 /\ tasks[a].st = "new"
                 /\ submitted' = submitted + (transactions_per_batch \div concurrent_senders)
      ]_vars

(* a batch of 3 for 2 senders has been posted whole: 2 submissions *)
C32_Witness ==
    /\ transactions_per_batch = 3
    /\ concurrent_senders = 2
    /\ batch_no = 1
    /\ submitted = 2
    /\ \A a \in Accounts : tasks[a].st # "new"
    /\ \E a \in Accounts : nonce_counters[a] = Seed(a) + 1


(* C33: under every interleaving of the send tasks of a batch, sent and      *)
(* failed never decrease, and no increment is lost: whenever every send task *)
(* has returned, so that no submission is waiting for its response or for    *)
(* its turn in the loop over the responses, sent + failed is the number of   *)
(* submissions posted since the object was made.                             *)
C33_NoIncrementLost ==
    /\ [](TasksResolved => sent + failed = submitted)
    /\ [][sent' >= sent /\ failed' >= failed]_vars

(* two batches of two concurrent send tasks have been counted, with accepted *)
(* and failed submissions among them                                         *)
C33_Witness ==
    /\ TasksResolved
    /\ concurrent_senders = 2
    /\ batch_no >= 2
    /\ submitted >= 4
    /\ sent >= 1
    /\ failed >= 1
    /\ sent + failed = submitted


(* sub_batch_size = 20 of send_transaction_batch_optimized, scaled down like *)
(* the batch: the posts are made sub-batch by sub-batch, all of them are     *)
(* appended to the one list batch_tasks, and the one gather that follows the *)
(* loops starts them all                                                     *)
SubBatchSize == 2
sub_batch_size == SubBatchSize

(* the submissions of a send task that have been posted and not resolved *)
InFlight(t) ==
    IF t.st = "posted"
    THEN Cardinality({i \in 1..t.count : t.resp[i] = "inflight"})
    ELSE 0

(* C34: at most sub_batch_size submissions of one sender are in flight at    *)
(* the same time, for every per-sender batch size.                           *)
C34_AtMostSubBatchInFlight ==
    \A a \in Accounts : InFlight(tasks[a]) <= sub_batch_size


(* the sum of the samples less the time of the last detection, in ms *)
SamplesLessElapsed(times, lbt) == RatSub(SumSamples(times), Quot(lbt * MsPerTick, 1))

(* C35: in the monitors of tps20k and fixed the samples appended on one      *)
(* detection sum to the monotonic time since the previous detection, so the  *)
(* sum of all samples of the phase is the monotonic time from the initial    *)
(* height read to the latest detection: the initial read starts from no      *)
(* sample and the time of the read, and every later step of the phase leaves *)
(* the difference of the sum and the time of the latest detection as it is.  *)
C35_SamplesSumToElapsed ==
    [][ (variant \in Measured) =>
          /\ (mon_pc = "initial_read" /\ mon_pc' = "loop") =>
                 /\ block_times' = << >>
                 /\ last_block_time' = now
          /\ (InPollingLoop /\ block_times' # block_times) =>
                 /\ last_block_time' = now
                 /\ RatEq(SumSamples(block_times'),
                          RatAdd(SumSamples(block_times),
                                 Quot((now - last_block_time) * MsPerTick, 1)))
          /\ (InPollingLoop /\ mon_pc' \in {"loop", "sleep", "finish"}) =>
                 RatEq(SamplesLessElapsed(block_times', last_block_time'),
                       SamplesLessElapsed(block_times, last_block_time)) ]_vars

(* the loaded phase has samples of a detection of one block and of a         *)
(* detection of two blocks at once                                           *)
C35_Witness ==
    /\ variant \in Measured
    /\ run_pc = "loaded"
    /\ InPollingLoop
    /\ Len(block_times) >= 3
    /\ \E i \in DOMAIN block_times : block_times[i].den = 2
    /\ \E i \in DOMAIN block_times : block_times[i].den = 1 /\ block_times[i].num > 0


(* C36: in every monitor the last observed height never decreases, and a     *)
(* poll that returns a height lower than or equal to it appends no sample    *)
(* and changes neither the last observed height nor the last detection time  *)
(* nor the last timestamp.                                                   *)
C36_LastHeightNeverDecreases ==
    [][ InPollingLoop =>
          /\ last_block' >= last_block
          /\ last_poll' \in {"same", "lower"} =>
                 /\ block_times' = block_times
                 /\ block_time_measurements' = block_time_measurements
                 /\ blocks_produced' = blocks_produced
                 /\ last_block' = last_block
                 /\ last_block_time' = last_block_time
                 /\ last_timestamp' = last_timestamp ]_vars

(* after a detection a poll was answered with a height below the last one *)
C36_Witness ==
    /\ InPollingLoop
    /\ last_poll = "lower"
    /\ last_block > start_block
    /\ block_times # << >>


----------------------------------------------------------------------------
(* simple: monitor_block_production with generate_load, and the task of     *)
(* generate_read_load that it creates                                       *)

(* Bounds: a burst is scaled down from 10 requests, and the task issues at  *)
(* most MaxLoadRequests requests in the model                               *)
BurstSize == 2
MaxLoadRequests == 4

(* the task runs up to "await asyncio.gather(...)": a burst of requests *)
ReadLoadBurst ==
    /\ read_load \in {"created", "sleep"}
    /\ load_requests + BurstSize <= MaxLoadRequests
    /\ read_load' = "burst"
    /\ load_requests' = load_requests + BurstSize
    /\ UNCHANGED <<variant, transactions_per_batch, now, chain, generate_load>>
    /\ UNCHANGED <<monVars, loadVars, histVars, runVars>>

(* the burst is answered: the task goes on to "await asyncio.sleep(...)" *)
ReadLoadBurstDone ==
    /\ read_load = "burst"
    /\ read_load' = "sleep"
    /\ UNCHANGED <<variant, transactions_per_batch, now, chain, generate_load,
                   load_requests>>
    /\ UNCHANGED <<monVars, loadVars, histVars, runVars>>

(* the CancelledError reaches the task at the await where it stands (or      *)
(* before its first step); nothing in generate_read_load catches it, the     *)
(* requests of a burst still waiting are cancelled with the gather           *)
ReadLoadCancelled ==
    /\ read_load = "cancelling"
    /\ read_load' = "cancelled"
    /\ UNCHANGED <<variant, transactions_per_batch, now, chain, generate_load,
                   load_requests>>
    /\ UNCHANGED <<monVars, loadVars, histVars, runVars>>

(* an exception reaches monitor_block_production at an await of its loop:    *)
(* the CancelledError of an interrupted run, or what int(...) raises on a    *)
(* response whose result is no block                                         *)
MonLoopRaises ==
    /\ mon_pc = "sleep"
    /\ variant = "simple"
    /\ mon_pc' = AfterLoopRaises(read_load)
    /\ read_load' = IF AfterLoopRaises(read_load) = "raised"
                    THEN read_load ELSE CancelRequested(read_load)
    /\ UNCHANGED <<variant, transactions_per_batch, now, chain, generate_load,
                   load_requests>>
    /\ UNCHANGED <<mon_duration, mon_start_time, start_real_time, start_block,
                   last_block, last_block_time, last_timestamp, current_block,
                   blocks_produced, block_times, block_time_measurements, mon_wake,
                   mon_report, last_poll>>
    /\ UNCHANGED <<loadVars, histVars, runVars>>

(* "await load_task" in the finally clause returns: the statistics follow,   *)
(* or the exception that left the loop goes on                              *)
MonLoadTaskAwaited ==
    /\ mon_pc \in {"await_cancel", "await_cancel_raise"}
    /\ read_load = "cancelled"
    /\ mon_pc' = IF mon_pc = "await_cancel" THEN "finish" ELSE "raised"
    /\ UNCHANGED <<envVars, mon_duration, mon_start_time, start_real_time, start_block,
                   last_block, last_block_time, last_timestamp, current_block,
                   blocks_produced, block_times, block_time_measurements, mon_wake,
                   mon_report, last_poll>>
    /\ UNCHANGED <<loadVars, histVars, runVars>>

(* one call of monitor_block_production, with or without read load *)
InitSimpleLoad ==
    /\ variant = "simple"
    /\ transactions_per_batch = TxPerBatch
    /\ generate_load \in BOOLEAN
    /\ read_load = "none"
    /\ load_requests = 0
    /\ now = 0
    /\ chain = <<1>>
    /\ InitMonitorIdle
    /\ InitLoadIdle
    /\ InitRunIdle
    /\ mon_pc = "start"

NextSimpleLoad ==
    \/ Tick
    \/ NewBlock
    \/ MonStart
    \/ MonInitialRead
    \/ MonLoop
    \/ MonPollSimple
    \/ MonLoopRaises
    \/ MonLoadTaskAwaited
    \/ MonFinish
    \/ ReadLoadBurst
    \/ ReadLoadBurstDone
    \/ ReadLoadCancelled

SpecSimpleLoad == InitSimpleLoad /\ [][NextSimpleLoad]_vars

(* the task of generate_read_load exists and has not ended *)
ReadLoadAlive == read_load \in {"created", "burst", "sleep", "cancelling"}

(* C38: with generate_load on, the read-load task is started only after the  *)
(* initial block read succeeded; when monitor_block_production has returned  *)
(* or raised, the task has been cancelled and issues no further request, so  *)
(* no load task outlives the phase that started it.                          *)
C38_ReadLoadWithinPhase ==
    /\ [](mon_pc \in {"start", "initial_read", "returned"} => read_load = "none")
    /\ [](ReadLoadAlive => generate_load /\ start_block # 0)
    /\ [](mon_pc \in {"finish", "done", "returned", "raised"} => ~ReadLoadAlive)
    /\ [][(read_load \in {"cancelling", "cancelled"}) =>
              /\ load_requests' = load_requests
              /\ read_load' \in {"cancelling", "cancelled"}]_vars

(* a monitor with read load returned, and one was left by an exception,     *)
(* after the task had issued requests and was cancelled                     *)
C38_Witness ==
    /\ generate_load
    /\ mon_pc \in {"done", "raised"}
    /\ read_load = "cancelled"
    /\ load_requests >= BurstSize


====
